---- MODULE Spec2Model ----
(***************************************************************************)
(* Model of src/app.py, the "DADS9 - 5002 Score" classroom application.    *)
(*                                                                         *)
(* The application is one script that is executed from its first to its   *)
(* last line on every user interaction (a button press, or a committed    *)
(* change of an input field).  An action of this model is one such         *)
(* execution: the handlers of the pressed button, every store statement    *)
(* they issue, and the rendering that surrounds them.  st.rerun() aborts   *)
(* the execution and starts a second one with no button pressed; that      *)
(* second execution is part of the same action.                            *)
(*                                                                         *)
(* Text is a finite sequence of symbols.  The symbol " " is whitespace;    *)
(* every other symbol stands for a run of non-whitespace characters.  A    *)
(* Python Optional[str] is a sequence of length at most one: <<>> is None  *)
(* and <<t>> is the string t.                                              *)
(***************************************************************************)
EXTENDS Integers, Sequences, FiniteSets, TLC

(***************************************************************************)
(* Bounds of the model.                                                    *)
(***************************************************************************)
\* most slots a draft may grow to ("Add Question" is not offered beyond it)
MaxSlots == 2
\* most rows the answers table's AUTOINCREMENT counter may hand out
MaxAnswerId == 4
\* latest reading of the store's CURRENT_TIMESTAMP clock
MaxClock == 2
\* highest participation count the "+" button is pressed up to
MaxCount == 1

(***************************************************************************)
(* Text helpers.                                                           *)
(***************************************************************************)
Whitespace == {" "}

None == <<>>
Some(t) == <<t>>

Max(a, b) == IF a >= b THEN a ELSE b
Min(a, b) == IF a <= b THEN a ELSE b

\* str.strip(): leading and trailing whitespace removed, the inside kept
Strip(s) ==
    IF \A i \in 1..Len(s) : s[i] \in Whitespace
    THEN <<>>
    ELSE SubSeq(s,
                CHOOSE i \in 1..Len(s) :
                    s[i] \notin Whitespace /\ \A j \in 1..(i - 1) : s[j] \in Whitespace,
                CHOOSE i \in 1..Len(s) :
                    s[i] \notin Whitespace /\ \A j \in (i + 1)..Len(s) : s[j] \in Whitespace)

\* [""] * n
Blanks(n) == [i \in 1..n |-> <<>>]

(***************************************************************************)
(* Program constants.                                                      *)
(***************************************************************************)
DEFAULT_QUESTIONS == << <<"Explain">>, <<"Give">>, <<"What">> >>

\* str(date.today()): one class day is modelled
TODAY == <<"2025-11-01">>

TEACHER_CODE == <<"1234">>

(***************************************************************************)
(* Values the users type.                                                  *)
(***************************************************************************)
StudentIdInputs == { <<>>, <<" ">>, <<"S001">>, <<"S002", " ">> }
DateInputs == { <<>>, <<"w1", " ">>, TODAY }
QuestionInputs == { <<" ">>, <<" ", "q">> }
AnswerInputs == { <<" ">>, <<"a", " ">> }
GroupInputs == { <<>>, <<"A", " ">> }

VARIABLES
    \* ---- the store (answers.db)
    db_answers,         \* table answers: set of rows
    seq_answers,        \* sqlite_sequence of answers: the last id handed out
    db_questions,       \* table questions
    db_logins,          \* table student_logins
    db_class_scores,    \* table class_scores
    db_participation,   \* table participation
    db_score_weights,   \* table score_weights (at most the row id = 1)
    now,                \* the store's CURRENT_TIMESTAMP
    \* ---- the student's session: input fields and st.session_state
    student_id,         \* text_input "Student ID"
    date_week,          \* text_input "Date / Week"
    started,
    q_index,
    answers,
    current_questions,
    show_preview,
    group_name,
    group_name_input,   \* text_input with key "group_name_input"
    page,               \* what the last execution left on the student's screen
    \* ---- the teacher's session on the page "Student Participation"
    participation_date_input,   \* text_input "Date / Week (for Participation)"
    participation_date,         \* session_state["participation_date"]
    part_values,                \* session_state["participation_values_<date>"], by date
    \* ---- history
    resolve_arg,        \* the argument of the last load_questions call
    resolve_result,     \* what that call returned
    query_arg,          \* the arguments of the last load_answers call
    query_result,       \* the rows that call returned, in their order
    w_answers_all,      \* number_input "Weight: Answers" (tenths)
    w_class_all,        \* number_input "Weight: Activity Score" (tenths)
    w_part_all,         \* number_input "Weight: Participation" (tenths)
    total_df,           \* the table of students the totals page shows
    group_df,           \* the table of groups the totals page shows
    store_effect,       \* what the last login or participation save did to the store
    \* ---- the store's connections
    conn                \* by writer: the save_answers / save_question_set call in progress

storeVars == << db_answers, seq_answers, db_questions, db_logins,
                db_class_scores, db_participation, db_score_weights, now >>
\* the store without the table answers
otherStoreVars == << db_questions, db_logins, db_class_scores, db_participation,
                     db_score_weights, now >>
draftVars == << started, q_index, answers, current_questions, show_preview,
                group_name, group_name_input >>
studentVars == << student_id, date_week, started, q_index, answers,
                  current_questions, show_preview, group_name,
                  group_name_input, page >>
partVars == << participation_date_input, participation_date, part_values >>
resolveVars == << resolve_arg, resolve_result, query_arg, query_result >>
totalsVars == << w_answers_all, w_class_all, w_part_all, total_df, group_df >>
connVars == << conn >>
teacherVars == << partVars, resolveVars, totalsVars, connVars >>
vars == << storeVars, studentVars, teacherVars, store_effect >>

(***************************************************************************)
(* Question sets.                                                          *)
(***************************************************************************)
\* the question column of rows, ORDER BY question_no (question_no is
\* unique within a date_week)
OrderByQuestionNo(rows) ==
    [i \in 1..Cardinality(rows) |->
        (CHOOSE r \in rows :
            Cardinality({o \in rows : o.question_no < r.question_no}) = i - 1).question]

\* mutant of load_questions: a date without stored entries yields no question
load_questions_NoFallback(date_arg) ==
    IF date_arg = None \/ date_arg = Some(<<>>)
    THEN DEFAULT_QUESTIONS
    ELSE OrderByQuestionNo({r \in db_questions : r.date_week = date_arg[1]})

load_questions(date_arg) ==
    IF date_arg = None \/ date_arg = Some(<<>>)
    THEN DEFAULT_QUESTIONS
    ELSE LET df == {r \in db_questions : r.date_week = date_arg[1]}
         IN  IF df = {} THEN DEFAULT_QUESTIONS
             ELSE IF Len(OrderByQuestionNo(df)) > 0 THEN OrderByQuestionNo(df)
             ELSE DEFAULT_QUESTIONS

(***************************************************************************)
(* The student page.                                                       *)
(***************************************************************************)
\* selected_date = date_week.strip() or str(date.today())
SelectedDate(dw) == IF Strip(dw) # <<>> THEN Strip(dw) ELSE TODAY

\* st.session_state as a record
SessionState ==
    [ started |-> started, q_index |-> q_index, answers |-> answers,
      current_questions |-> current_questions, show_preview |-> show_preview,
      group_name |-> group_name, group_name_input |-> group_name_input ]

\* mutant of InsertLogin: INSERT OR REPLACE, the stored event is overwritten
InsertLogin_Replace(tbl, sid, dw) ==
    {r \in tbl : ~(r.student_id = sid /\ r.date_week = dw)}
        \cup { [student_id |-> sid, date_week |-> dw, logged_at |-> now] }

\* INSERT OR IGNORE INTO student_logins, UNIQUE(student_id, date_week)
\* ON CONFLICT IGNORE, logged_at DEFAULT CURRENT_TIMESTAMP
InsertLogin(tbl, sid, dw) ==
    IF \E r \in tbl : r.student_id = sid /\ r.date_week = dw
    THEN tbl
    ELSE tbl \cup { [student_id |-> sid, date_week |-> dw, logged_at |-> now] }

log_student_login(tbl, sid, dw) ==
    IF sid = <<>> \/ dw = <<>> THEN tbl ELSE InsertLogin(tbl, sid, dw)

\* if login_clicked: ...
LoginHandler(tbl, sid_field, dw_field) ==
    IF Strip(sid_field) = <<>>
    THEN tbl
    ELSE log_student_login(tbl, Strip(sid_field), SelectedDate(dw_field))

\* question_set = load_questions(selected_date); if not question_set: [""]
StartQuestionSet(loaded) == IF loaded = <<>> THEN << <<>> >> ELSE loaded

StartDraft(ss, question_set) ==
    [ss EXCEPT !.current_questions = question_set,
               !.answers = Blanks(Len(question_set)),
               !.q_index = 0,
               !.started = TRUE,
               !.show_preview = FALSE,
               !.group_name = <<>>,
               !.group_name_input = <<>>]

\* if start: ...
\* mutant of StartHandler: the draft is started whatever the Student ID is
StartHandler_NoCheck(ss, sid_field, dw_field) ==
    StartDraft(ss, StartQuestionSet(load_questions(Some(SelectedDate(dw_field)))))

StartHandler(ss, sid_field, dw_field) ==
    IF Strip(sid_field) = <<>>
    THEN ss
    ELSE StartDraft(ss, StartQuestionSet(load_questions(Some(SelectedDate(dw_field)))))

\* "Ensure at least 1": if total <= 0 the draft becomes one blank slot
EnsureSlot(ss) ==
    IF Len(ss.current_questions) <= 0
    THEN [ss EXCEPT !.current_questions = << <<>> >>, !.answers = << <<>> >>]
    ELSE ss

\* q_idx = max(0, min(q_index, total - 1)); session_state.q_index = q_idx
ClampCursor(ss) ==
    [ss EXCEPT !.q_index = Max(0, Min(ss.q_index, Len(ss.current_questions) - 1))]

\* questions[q_idx] = edited_q; typed is what the user has just typed into
\* the widget (None: the widget returns the value it was given)
ReadQuestionInput(ss, typed) ==
    IF typed = None THEN ss
    ELSE [ss EXCEPT !.current_questions[ss.q_index + 1] = typed[1]]

\* answers = (answers + [""] * total)[:total] when the lengths differ
SyncAnswers(ss) ==
    IF Len(ss.answers) # Len(ss.current_questions)
    THEN [ss EXCEPT !.answers =
              SubSeq(ss.answers \o Blanks(Len(ss.current_questions)),
                     1, Len(ss.current_questions))]
    ELSE ss

\* answers[q_idx] = st.text_area(...)
ReadAnswerInput(ss, typed) ==
    IF typed = None THEN ss
    ELSE [ss EXCEPT !.answers[ss.q_index + 1] = typed[1]]

\* group_value = st.text_input(key="group_name_input"); group_name = group_value.strip()
ReadGroupInput(ss, typed) ==
    IF typed = None
    THEN [ss EXCEPT !.group_name = Strip(ss.group_name_input)]
    ELSE [ss EXCEPT !.group_name_input = typed[1], !.group_name = Strip(typed[1])]

\* The draft as rendered, from "if st.session_state.started:" down to the
\* group field.
RenderDraft(ss, typed_q, typed_a, typed_g) ==
    ReadGroupInput(
        ReadAnswerInput(
            SyncAnswers(ReadQuestionInput(ClampCursor(EnsureSlot(ss)), typed_q)),
            typed_a),
        typed_g)

\* disabled=(q_idx == 0)
BackDisabled(ss) == ss.q_index = 0

\* disabled=(q_idx >= total - 1) or (not allow_next)
NextDisabled(ss) ==
    LET total == Len(ss.current_questions)
        allow_next == Strip(ss.answers[ss.q_index + 1]) # <<>>
    IN  (ss.q_index >= total - 1) \/ ~allow_next

\* mutant of all_filled: the answers are compared without being trimmed
all_filled_Untrimmed(ss) ==
    \A i \in 1..Min(Len(ss.answers), Len(ss.current_questions)) :
        ss.answers[i] # <<>>

\* all(a.strip() != "" for a in answers[:len(current_questions)])
all_filled(ss) ==
    \A i \in 1..Min(Len(ss.answers), Len(ss.current_questions)) :
        Strip(ss.answers[i]) # <<>>

\* mutant of BackHandler: the cursor is lowered without the floor max(0, .)
BackHandler_NoFloor(ss) ==
    [ss EXCEPT !.q_index = ss.q_index - 1, !.show_preview = FALSE]

BackHandler(ss) ==
    [ss EXCEPT !.q_index = Max(0, ss.q_index - 1), !.show_preview = FALSE]

\* mutant of NextHandler: advancing from the last slot appends a blank slot
NextHandler_Appends(ss) ==
    [ss EXCEPT !.current_questions = Append(ss.current_questions, <<>>),
               !.answers = Append(ss.answers, <<>>),
               !.q_index = ss.q_index + 1,
               !.show_preview = FALSE]

NextHandler(ss) ==
    [ss EXCEPT !.q_index = Min(Len(ss.current_questions) - 1, ss.q_index + 1),
               !.show_preview = FALSE]

\* mutant of AddHandler: the preview stays open
AddHandler_KeepsPreview(ss) ==
    [ss EXCEPT !.current_questions = Append(ss.current_questions, <<>>),
               !.answers = Append(ss.answers, <<>>),
               !.q_index = Len(ss.current_questions)]

AddHandler(ss) ==
    LET qs == Append(ss.current_questions, <<>>)
    IN  [ss EXCEPT !.current_questions = qs,
                   !.answers = Append(ss.answers, <<>>),
                   !.q_index = Len(qs) - 1,
                   !.show_preview = FALSE]

PreviewHandler(ss) == [ss EXCEPT !.show_preview = TRUE]

\* mutant of QaList: the ordinal is the 0-based index
QaList_ZeroBased(ss) ==
    [i \in 1..Len(ss.current_questions) |->
        [question_no |-> i - 1,
         question |-> Strip(ss.current_questions[i]),
         answer |-> Strip(ss.answers[i])]]

\* qa = [(i + 1, (questions[i] or "").strip(), answers[i].strip()) ...]
QaList(ss) ==
    [i \in 1..Len(ss.current_questions) |->
        [question_no |-> i,
         question |-> Strip(ss.current_questions[i]),
         answer |-> Strip(ss.answers[i])]]

\* DELETE FROM answers WHERE student_id=? AND date_week=?
DeleteAnswers(tbl, sid, dw) ==
    {r \in tbl : ~(r.student_id = sid /\ r.date_week = dw)}

\* mutant of InsertAnswers: the group name is stored on the first row only
InsertAnswers_GroupOnFirst(tbl, seq, sid, dw, qa_list, grp) ==
    tbl \cup { [id |-> seq + i, student_id |-> sid, date_week |-> dw,
                question_no |-> qa_list[i].question_no,
                question |-> qa_list[i].question,
                answer |-> qa_list[i].answer,
                group_name |-> IF i = 1 THEN Strip(grp) ELSE <<>>,
                checked |-> 0] : i \in 1..Len(qa_list) }

\* the INSERT loop of save_answers; ids continue after the last one used
InsertAnswers(tbl, seq, sid, dw, qa_list, grp) ==
    tbl \cup { [id |-> seq + i, student_id |-> sid, date_week |-> dw,
                question_no |-> qa_list[i].question_no,
                question |-> qa_list[i].question,
                answer |-> qa_list[i].answer,
                group_name |-> Strip(grp), checked |-> 0] : i \in 1..Len(qa_list) }

\* mutant of save_answers: a new row takes the checked flag of the row it
\* replaces
save_answers_KeepChecked(tbl, seq, sid, dw, qa_list, grp) ==
    { [r EXCEPT !.checked =
          IF /\ r.id > seq
             /\ \E o \in tbl : /\ o.student_id = sid /\ o.date_week = dw
                                /\ o.question_no = r.question_no /\ o.checked = 1
          THEN 1 ELSE r.checked] :
        r \in InsertAnswers(DeleteAnswers(tbl, sid, dw), seq, sid, dw, qa_list, grp) }

\* mutant of save_answers: the DELETE is missing
save_answers_NoDelete(tbl, seq, sid, dw, qa_list, grp) ==
    InsertAnswers(tbl, seq, sid, dw, qa_list, grp)

save_answers(tbl, seq, sid, dw, qa_list, grp) ==
    InsertAnswers(DeleteAnswers(tbl, sid, dw), seq, sid, dw, qa_list, grp)

\* "reset for new submission"
SubmitReset(ss) ==
    [ss EXCEPT !.started = FALSE,
               !.q_index = 0,
               !.answers = Blanks(Len(DEFAULT_QUESTIONS)),
               !.show_preview = FALSE,
               !.group_name = <<>>,
               !.group_name_input = <<>>]

\* nothing of the draft is on the screen
BlankPage ==
    [ shown |-> FALSE, q_idx |-> 0, back_enabled |-> FALSE,
      next_enabled |-> FALSE, preview_enabled |-> FALSE,
      submit_shown |-> FALSE, submit_enabled |-> FALSE,
      q_held |-> None, a_held |-> None ]

\* The draft part of the screen: rendered is the session state when the
\* question, the answer and the Back / Next buttons were drawn, later the
\* session state when Preview and SUBMIT were drawn.
PageOf(rendered, later) ==
    [ shown |-> TRUE,
      q_idx |-> rendered.q_index,
      back_enabled |-> ~BackDisabled(rendered),
      next_enabled |-> ~NextDisabled(rendered),
      preview_enabled |-> all_filled(later),
      submit_shown |-> later.show_preview,
      submit_enabled |-> later.show_preview /\ all_filled(later),
      q_held |-> None, a_held |-> None ]

\* what an execution leaves: the session state, the screen, whether SUBMIT
\* ran and, if it did, the draft it saved
PassResult(ss, pg, submitted, draft) ==
    [ ss |-> ss, page |-> pg, submitted |-> submitted, draft |-> draft ]

\* The execution st.rerun() starts: no button is pressed, nothing is typed.
Rerendered(r) == PassResult(r, PageOf(r, r), FALSE, r)

RerunPass(ss) == Rerendered(RenderDraft(ss, None, None, None))

\* mutant of SubmitStep: the answers are saved as soon as the preview is open
SubmitStep_Always(ss2, ss4, click) ==
    IF ss4.show_preview
    THEN PassResult(SubmitReset(ss4), PageOf(ss2, ss4), TRUE, ss4)
    ELSE PassResult(ss4, PageOf(ss2, ss4), FALSE, ss4)

\* "if st.session_state.get('show_preview'):" ... the SUBMIT button
SubmitStep(ss2, ss4, click) ==
    IF click = "submit" /\ ss4.show_preview
    THEN PassResult(SubmitReset(ss4), PageOf(ss2, ss4), TRUE, ss4)
    ELSE PassResult(ss4, PageOf(ss2, ss4), FALSE, ss4)

\* the Preview button
PreviewStep(ss2, ss3, click) ==
    SubmitStep(ss2, IF click = "preview" THEN PreviewHandler(ss3) ELSE ss3, click)

\* The buttons below the draft.  Next takes effect only under the key
\* next_btn_{q_idx} it was pressed under (same_slot).
ControlsStep(ss2, same_slot, click) ==
    IF click = "next" /\ same_slot
    THEN RerunPass(NextHandler(ss2))
    ELSE IF click = "add"
    THEN RerunPass(AddHandler(ss2))
    ELSE PreviewStep(ss2, IF click = "back" THEN BackHandler(ss2) ELSE ss2, click)

\* whether the question and answer widgets on the screen (keys q_{q_idx},
\* a_{q_idx}) are the ones this execution draws
SameSlot(ss) ==
    page.shown /\ page.q_idx = Max(0, Min(ss.q_index, Len(ss.current_questions) - 1))

\* A text widget keeps the text typed into it for as long as it is drawn
\* again under the same key and with the same value argument; it starts
\* from its value argument otherwise.  held is what the widget of the last
\* execution keeps (None: its text is its value argument); the result is
\* the text that overrides the value argument arg (None: none does).
WidgetText(same_slot, held, typed, arg) ==
    IF ~same_slot THEN None
    ELSE IF typed # None THEN typed
    ELSE IF held # None /\ held[1].arg = arg THEN Some(held[1].val)
    ELSE None

\* what the widget keeps after it returned the text of WidgetText
WidgetHeld(text, arg) ==
    IF text = None \/ text = Some(arg) THEN None
    ELSE Some([arg |-> arg, val |-> text[1]])

\* value=questions[q_idx]
QuestionArg(ss) ==
    ClampCursor(EnsureSlot(ss)).current_questions[ClampCursor(EnsureSlot(ss)).q_index + 1]

QuestionText(ss1, typed_q) ==
    WidgetText(SameSlot(ss1), page.q_held, typed_q, QuestionArg(ss1))

\* value=st.session_state.answers[q_idx], after the question was read
AnswerArg(ss1, text_q) ==
    SyncAnswers(ReadQuestionInput(ClampCursor(EnsureSlot(ss1)), text_q))
        .answers[ClampCursor(EnsureSlot(ss1)).q_index + 1]

AnswerText(ss1, text_q, typed_a) ==
    WidgetText(SameSlot(ss1), page.a_held, typed_a, AnswerArg(ss1, text_q))

\* the widgets of an execution that ends without st.rerun() stay on the
\* screen with what they keep
HeldStep(out, reran, q_held, a_held) ==
    IF reran THEN out
    ELSE [out EXCEPT !.page.q_held = q_held, !.page.a_held = a_held]

\* whether the execution ends in st.rerun()
Reruns(click, same_slot) == (click = "next" /\ same_slot) \/ click = "add"

DraftWidgets(ss1, click, text_q, text_a, typed_g) ==
    HeldStep(ControlsStep(RenderDraft(ss1, text_q, text_a, typed_g),
                          SameSlot(ss1), click),
             Reruns(click, SameSlot(ss1)),
             WidgetHeld(text_q, QuestionArg(ss1)),
             WidgetHeld(text_a, AnswerArg(ss1, text_q)))

DraftAnswer(ss1, click, text_q, typed_a, typed_g) ==
    DraftWidgets(ss1, click, text_q, AnswerText(ss1, text_q, typed_a), typed_g)

DraftStep(ss1, click, typed_q, typed_a, typed_g) ==
    IF ~ss1.started
    THEN PassResult(ss1, BlankPage, FALSE, ss1)
    ELSE DraftAnswer(ss1, click, QuestionText(ss1, typed_q), typed_a, typed_g)

\* One execution of the student page.  click is the pressed button
\* ("none" when an input field changed).  A button takes effect only if
\* this execution draws it: the draft buttons only while started, SUBMIT
\* only while show_preview.
StudentPass(click, typed_q, typed_a, typed_g, sid_field, dw_field) ==
    DraftStep(IF click = "start"
              THEN StartHandler(SessionState, sid_field, dw_field)
              ELSE SessionState,
              click, typed_q, typed_a, typed_g)

\* the session state and the screen after the execution
SetStudent(out) ==
    /\ started' = out.ss.started
    /\ q_index' = out.ss.q_index
    /\ answers' = out.ss.answers
    /\ current_questions' = out.ss.current_questions
    /\ show_preview' = out.ss.show_preview
    /\ group_name' = out.ss.group_name
    /\ group_name_input' = out.ss.group_name_input
    /\ page' = out.page

\* The connections that write: the student's session (SESSION_WRITER) and
\* another session.
SESSION_WRITER == "session"
OTHER_WRITER == "other"
Writers == { SESSION_WRITER, OTHER_WRITER }

\* the tables as a connection sees them
NoWork == [ answers |-> {}, seq |-> 0, questions |-> {} ]

\* no call in progress; result is how the last call ended
IdleConn ==
    [ pc |-> "idle", table |-> "none", sid |-> <<>>, dw |-> <<>>, grp |-> <<>>,
      items |-> <<>>, i |-> 0, dirty |-> FALSE, work |-> NoWork,
      result |-> "none" ]

\* the store init_db leaves on first use
InitStore ==
    /\ now = 0
    /\ db_answers = {}
    /\ seq_answers = 0
    /\ db_questions = {}
    /\ db_logins = {}
    /\ db_class_scores = {}
    /\ db_participation = {}
    /\ db_score_weights = {}

\* a new browser session
InitSession ==
    /\ student_id = <<>>
    /\ date_week = TODAY
    /\ started = FALSE
    /\ q_index = 0
    /\ answers = DEFAULT_QUESTIONS
    /\ current_questions = DEFAULT_QUESTIONS
    /\ show_preview = FALSE
    /\ group_name = <<>>
    /\ group_name_input = <<>>
    /\ page = BlankPage
    /\ participation_date_input = TODAY
    /\ participation_date = None
    /\ part_values = << >>
    /\ resolve_arg = None
    /\ resolve_result = None
    /\ query_arg = None
    /\ query_result = None
    /\ w_answers_all = None
    /\ w_class_all = None
    /\ w_part_all = None
    /\ total_df = {}
    /\ group_df = {}
    /\ store_effect = "none"
    /\ conn = [w \in Writers |-> IdleConn]

Init == InitStore /\ InitSession

(***************************************************************************)
(* Student actions.                                                        *)
\* save_answers(student_id.strip(), date_week.strip(), qa, group_name)
SubmitStore(out) ==
    IF out.submitted
    THEN /\ db_answers' = save_answers(db_answers, seq_answers,
                              Strip(student_id), Strip(date_week),
                              QaList(out.draft), out.draft.group_name)
         /\ seq_answers' = seq_answers + Len(out.draft.current_questions)
    ELSE UNCHANGED << db_answers, seq_answers >>

\* one execution of the student's page: the session state and the screen it
\* leaves, and what it wrote to the table answers
SubmitEffects(out) == SetStudent(out) /\ SubmitStore(out)

(***************************************************************************)
TypeStudentId(v) ==
    /\ v # student_id
    /\ student_id' = v
    /\ SubmitEffects(StudentPass("none", None, None, None, v, date_week))
    /\ UNCHANGED << otherStoreVars, date_week, teacherVars, store_effect >>

TypeDateWeek(v) ==
    /\ v # date_week
    /\ date_week' = v
    /\ SubmitEffects(StudentPass("none", None, None, None, student_id, v))
    /\ UNCHANGED << otherStoreVars, student_id, teacherVars, store_effect >>

\* what the LOGIN button did to student_logins
LoginEffect(tbl, sid_field, dw_field) ==
    IF LoginHandler(tbl, sid_field, dw_field) # tbl THEN "login_inserted"
    ELSE IF Strip(sid_field) = <<>> THEN "login_refused"
    ELSE "login_ignored"

ClickLogin ==
    /\ db_logins' = LoginHandler(db_logins, student_id, date_week)
    /\ store_effect' = LoginEffect(db_logins, student_id, date_week)
    /\ SetStudent(StudentPass("login", None, None, None, student_id, date_week))
    /\ UNCHANGED << db_answers, seq_answers, db_questions, db_class_scores,
                    db_participation, db_score_weights, now,
                    student_id, date_week, teacherVars >>

ClickStart ==
    /\ SubmitEffects(StudentPass("start", None, None, None, student_id, date_week))
    /\ UNCHANGED << otherStoreVars, student_id, date_week, teacherVars, store_effect >>

EditQuestion(v) ==
    /\ page.shown
    /\ SubmitEffects(StudentPass("none", Some(v), None, None, student_id, date_week))
    /\ UNCHANGED << otherStoreVars, student_id, date_week, teacherVars, store_effect >>

EditAnswer(v) ==
    /\ page.shown
    /\ SubmitEffects(StudentPass("none", None, Some(v), None, student_id, date_week))
    /\ UNCHANGED << otherStoreVars, student_id, date_week, teacherVars, store_effect >>

TypeGroupName(v) ==
    /\ page.shown
    /\ SubmitEffects(StudentPass("none", None, None, Some(v), student_id, date_week))
    /\ UNCHANGED << otherStoreVars, student_id, date_week, teacherVars, store_effect >>

ClickBack ==
    /\ page.shown /\ page.back_enabled
    /\ SubmitEffects(StudentPass("back", None, None, None, student_id, date_week))
    /\ UNCHANGED << otherStoreVars, student_id, date_week, teacherVars, store_effect >>

ClickNext ==
    /\ page.shown /\ page.next_enabled
    /\ SubmitEffects(StudentPass("next", None, None, None, student_id, date_week))
    /\ UNCHANGED << otherStoreVars, student_id, date_week, teacherVars, store_effect >>

\* Add Question pressed on a draft of fewer than max_slots slots
ClickAddUpTo(max_slots) ==
    /\ page.shown
    /\ Len(current_questions) < max_slots
    /\ SubmitEffects(StudentPass("add", None, None, None, student_id, date_week))
    /\ UNCHANGED << otherStoreVars, student_id, date_week, teacherVars, store_effect >>

ClickAdd == ClickAddUpTo(MaxSlots)

ClickPreview ==
    /\ page.shown /\ page.preview_enabled
    /\ SubmitEffects(StudentPass("preview", None, None, None, student_id, date_week))
    /\ UNCHANGED << otherStoreVars, student_id, date_week, teacherVars, store_effect >>

ClickSubmit ==
    /\ page.shown /\ page.submit_shown /\ page.submit_enabled
    /\ seq_answers + Len(current_questions) <= MaxAnswerId
    /\ SubmitEffects(StudentPass("submit", None, None, None, student_id, date_week))
    /\ UNCHANGED << db_questions, db_logins, db_class_scores, db_participation,
                    db_score_weights, now, student_id, date_week, teacherVars,
                    store_effect >>

Tick ==
    /\ now < MaxClock
    /\ now' = now + 1
    /\ UNCHANGED << db_answers, seq_answers, db_questions, db_logins,
                    db_class_scores, db_participation, db_score_weights,
                    studentVars, teacherVars, store_effect >>

(***************************************************************************)
(* The teacher page "Manage Questions & Check Answers".  Each teacher page *)
(* is used in a session of its own, in which the access code of that page  *)
(* alone is entered.                                                       *)
(***************************************************************************)
\* INSERT INTO questions of every row of new_rows, UNIQUE(date_week,
\* question_no) ON CONFLICT REPLACE (the rows of new_rows differ in question_no)
InsertQuestions(tbl, new_rows) ==
    {r \in tbl : ~\E n \in new_rows :
                    n.date_week = r.date_week /\ n.question_no = r.question_no}
        \cup new_rows

\* mutant of QuestionRows: the texts are stored as they were typed
QuestionRows_Untrimmed(dw, questions) ==
    { [date_week |-> dw, question_no |-> idx, question |-> questions[idx]] :
        idx \in {i \in 1..Len(questions) : Strip(questions[i]) # <<>>} }

\* for idx, q in enumerate([q.strip() for q in questions], start=1): if q: INSERT
QuestionRows(dw, questions) ==
    { [date_week |-> dw, question_no |-> idx, question |-> Strip(questions[idx])] :
        idx \in {i \in 1..Len(questions) : Strip(questions[i]) # <<>>} }

save_question_set(tbl, dw, questions) ==
    InsertQuestions({r \in tbl : r.date_week # dw}, QuestionRows(dw, questions))

\* "Save Question Set", pressed with manage_date and the Q1..Qnum fields
\* holding new_questions
ClickSaveQuestionSet(access_code, manage_date, new_questions) ==
    /\ Strip(access_code) = TEACHER_CODE
    /\ db_questions' = save_question_set(db_questions, Strip(manage_date), new_questions)
    /\ UNCHANGED << db_answers, seq_answers, db_logins, db_class_scores,
                    db_participation, db_score_weights, now, studentVars,
                    teacherVars, store_effect >>

(***************************************************************************)
(* save_answers and save_question_set statement by statement.  Each call   *)
(* opens a connection of its own (get_con); its first statement begins a   *)
(* transaction, which holds the database's write lock until con.commit().  *)
(* What a connection has written is in its own view (work) of the tables   *)
(* until it commits; a connection that is dropped without commit, as when  *)
(* a statement raises, is rolled back.                                     *)
(***************************************************************************)
\* the committed tables
Stored == [ answers |-> db_answers, seq |-> seq_answers, questions |-> db_questions ]

\* another connection holds the write lock
Busy(c, w) == \E v \in Writers \ {w} : c[v].dirty

\* the tables as the connection c sees them
View(c, stored) == IF c.dirty THEN c.work ELSE stored

\* mutant of DeleteStatement: the DELETE is missing
DeleteStatement_None(c, view) == view

\* cur.execute("DELETE FROM answers WHERE student_id=? AND date_week=?") or
\* cur.execute("DELETE FROM questions WHERE date_week=?")
DeleteStatement(c, view) ==
    IF c.table = "answers"
    THEN [view EXCEPT !.answers = DeleteAnswers(view.answers, c.sid, c.dw)]
    ELSE [view EXCEPT !.questions = {r \in view.questions : r.date_week # c.dw}]

\* one cur.execute("INSERT INTO ..."): the item c.i + 1 of the loop
InsertStatement(c, view) ==
    IF c.table = "answers"
    THEN [view EXCEPT
            !.answers = InsertAnswers(view.answers, view.seq, c.sid, c.dw,
                                      << c.items[c.i + 1] >>, c.grp),
            !.seq = view.seq + 1]
    ELSE [view EXCEPT
            !.questions = InsertQuestions(view.questions,
                              { [date_week |-> c.dw,
                                 question_no |-> c.items[c.i + 1].question_no,
                                 question |-> c.items[c.i + 1].question] })]

\* mutant of AfterStatement: every statement is committed on its own
AfterStatement_Autocommit(stored, work) ==
    [ stored |-> work, dirty |-> FALSE ]

\* after a statement inside the transaction: nothing is committed, the
\* connection holds the write lock
AfterStatement(stored, work) ==
    [ stored |-> stored, dirty |-> TRUE ]

\* mutant of Rollback: dropping the connection commits what it wrote
Rollback_Commits(stored, c) == View(c, stored)

\* the connection is dropped without con.commit()
Rollback(stored, c) == stored

\* con.commit()
Commit(stored, c) == View(c, stored)

SetStored(st) ==
    /\ db_answers' = st.answers
    /\ seq_answers' = st.seq
    /\ db_questions' = st.questions

\* the position after the statement: the next INSERT, or con.commit()
NextPc(c, done) == IF done >= Len(c.items) THEN "commit" ELSE "insert"

StatementStep(w, work, pc, done) ==
    /\ SetStored(AfterStatement(Stored, work).stored)
    /\ conn' = [conn EXCEPT ![w] =
                 [@ EXCEPT !.work = work,
                           !.dirty = AfterStatement(Stored, work).dirty,
                           !.i = done,
                           !.pc = pc]]

\* the execution of the student's page is inside save_answers
InSave == conn[SESSION_WRITER].pc # "idle"

ExecDelete(w) ==
    /\ conn[w].pc = "delete"
    /\ ~Busy(conn, w)
    /\ conn[w].table = "answers" => seq_answers + Len(conn[w].items) <= MaxAnswerId
    /\ StatementStep(w, DeleteStatement(conn[w], View(conn[w], Stored)),
                     NextPc(conn[w], 0), 0)
    /\ UNCHANGED << db_logins, db_class_scores, db_participation,
                    db_score_weights, now, studentVars, partVars, resolveVars,
                    totalsVars, store_effect >>

ExecInsert(w) ==
    /\ conn[w].pc = "insert"
    /\ ~Busy(conn, w)
    /\ StatementStep(w, InsertStatement(conn[w], View(conn[w], Stored)),
                     NextPc(conn[w], conn[w].i + 1), conn[w].i + 1)
    /\ UNCHANGED << db_logins, db_class_scores, db_participation,
                    db_score_weights, now, studentVars, partVars, resolveVars,
                    totalsVars, store_effect >>

\* what follows save_answers in the SUBMIT handler: "reset for new submission"
AfterSave(w, c) ==
    IF w = SESSION_WRITER /\ c.table = "answers"
    THEN SetStudent(PassResult(SubmitReset(SessionState), page, TRUE, SessionState))
    ELSE UNCHANGED << started, q_index, answers, current_questions,
                      show_preview, group_name, group_name_input, page >>

\* con.commit(); con.close(), and the rest of the handler
ExecCommit(w) ==
    /\ conn[w].pc = "commit"
    /\ ~Busy(conn, w)
    /\ SetStored(Commit(Stored, conn[w]))
    /\ conn' = [conn EXCEPT ![w] = [IdleConn EXCEPT !.result = "committed",
                                                      !.table = conn[w].table,
                                                      !.i = conn[w].i]]
    /\ AfterSave(w, conn[w])
    /\ UNCHANGED << db_logins, db_class_scores, db_participation,
                    db_score_weights, now, student_id, date_week, partVars,
                    resolveVars, totalsVars, store_effect >>

\* The store fails in the statement the connection is at (or in the commit):
\* the exception leaves save_answers / save_question_set and ends the
\* execution of the page, the connection is dropped without commit.
ExecFail(w) ==
    /\ conn[w].pc \in {"delete", "insert", "commit"}
    /\ SetStored(Rollback(Stored, conn[w]))
    /\ conn' = [conn EXCEPT ![w] = [IdleConn EXCEPT !.result = "failed",
                                                      !.table = conn[w].table,
                                                      !.i = conn[w].i]]
    /\ UNCHANGED << db_logins, db_class_scores, db_participation,
                    db_score_weights, now, studentVars, partVars, resolveVars,
                    totalsVars, store_effect >>

\* save_answers(...) is entered
AnswersCall(sid, dw, qa_list, grp) ==
    [IdleConn EXCEPT !.pc = "delete", !.table = "answers", !.sid = sid,
                     !.dw = dw, !.grp = grp, !.items = qa_list]

\* SUBMIT pressed: the execution up to the call of save_answers
SubmitCallStep(out) ==
    /\ SetStudent(PassResult(out.draft, out.page, out.submitted, out.draft))
    /\ conn' = IF out.submitted
               THEN [conn EXCEPT ![SESSION_WRITER] =
                        AnswersCall(Strip(student_id), Strip(date_week),
                                    QaList(out.draft), out.draft.group_name)]
               ELSE conn

SubmitCall ==
    /\ ~InSave
    /\ page.shown /\ page.submit_shown /\ page.submit_enabled
    /\ SubmitCallStep(StudentPass("submit", None, None, None, student_id, date_week))
    /\ UNCHANGED << storeVars, student_id, date_week, partVars, resolveVars,
                    totalsVars, store_effect >>

\* SUBMIT pressed in another session, for sid and dw, the draft being qa_list
OtherSubmitCall(sid, dw, qa_list, grp) ==
    /\ conn[OTHER_WRITER].pc = "idle"
    /\ conn' = [conn EXCEPT ![OTHER_WRITER] = AnswersCall(sid, dw, qa_list, grp)]
    /\ UNCHANGED << storeVars, studentVars, partVars, resolveVars, totalsVars,
                    store_effect >>

\* the rows save_question_set inserts, in the order of the loop
QuestionItems(questions) ==
    SelectSeq([idx \in 1..Len(questions) |->
                  [question_no |-> idx, question |-> Strip(questions[idx]),
                   answer |-> <<>>]],
              LAMBDA item : item.question # <<>>)

\* "Save Question Set" pressed in the session of the writer w: the execution
\* up to the first statement of save_question_set
SaveQuestionSetCall(w, access_code, manage_date, new_questions) ==
    /\ Strip(access_code) = TEACHER_CODE
    /\ conn[w].pc = "idle"
    /\ conn' = [conn EXCEPT ![w] =
                 [IdleConn EXCEPT !.pc = "delete", !.table = "questions",
                                  !.dw = Strip(manage_date),
                                  !.items = QuestionItems(new_questions)]]
    /\ UNCHANGED << storeVars, studentVars, partVars, resolveVars, totalsVars,
                    store_effect >>

(***************************************************************************)
(* The teacher page "Student Participation (per date)".                    *)
(***************************************************************************)
\* list_logged_students(date_week)["student_id"]
LoggedIds(dw) == {r.student_id : r \in {l \in db_logins : l.date_week = dw}}

\* load_participation_counts(date_week): the dict's keys, and dict.get(sid, 0)
ExistingPartIds(tbl, dw) == {r.student_id : r \in {x \in tbl : x.date_week = dw}}

ExistingPart(tbl, dw, sid) ==
    IF sid \in ExistingPartIds(tbl, dw)
    THEN (CHOOSE r \in tbl : r.date_week = dw /\ r.student_id = sid).participation
    ELSE 0

\* mutant of PartAllIds: the students who logged in for any date are listed
PartAllIds_AnyDate(dw) ==
    {l.student_id : l \in db_logins} \cup ExistingPartIds(db_participation, dw)

\* all_ids = sorted(set(ids_from_login) | set(existing_part.keys()))
PartAllIds(dw) == LoggedIds(dw) \cup ExistingPartIds(db_participation, dw)

\* part_map.get(sid, 0)
PartGet(part_map, sid) == IF sid \in DOMAIN part_map THEN part_map[sid] ELSE 0

\* session_state[state_key] = {sid: existing_part.get(sid, 0) for sid in all_ids}
FreshPartMap(dw) ==
    [sid \in PartAllIds(dw) |-> ExistingPart(db_participation, dw, sid)]

\* for sid in all_ids: session_state[state_key].setdefault(sid, existing_part.get(sid, 0))
SetDefaults(part_map, dw) ==
    [sid \in PartAllIds(dw) \cup DOMAIN part_map |->
        IF sid \in DOMAIN part_map THEN part_map[sid]
        ELSE ExistingPart(db_participation, dw, sid)]

\* the teacher's session state of this page as a record
PartSession ==
    [ participation_date |-> participation_date, part_values |-> part_values ]

\* The page as rendered for the date dw (stripped): nothing happens for a
\* blank date or while no student is listed; the counts are read from the
\* store when the date has no map yet or another date was shown last, and
\* completed by setdefault otherwise.
RenderParticipation(ps, dw) ==
    IF dw = <<>> \/ PartAllIds(dw) = {}
    THEN ps
    ELSE IF dw \notin DOMAIN ps.part_values \/ ps.participation_date # Some(dw)
    THEN [ participation_date |-> Some(dw),
           part_values |-> [d \in DOMAIN ps.part_values \cup {dw} |->
                              IF d = dw THEN FreshPartMap(dw) ELSE ps.part_values[d]] ]
    ELSE [ps EXCEPT !.part_values[dw] = SetDefaults(ps.part_values[dw], dw)]

\* mutant of MinusHandler: the count is decremented without the floor
MinusHandler_NoFloor(ps, dw, sid) ==
    [ps EXCEPT !.part_values[dw] =
        [x \in DOMAIN ps.part_values[dw] \cup {sid} |->
            IF x = sid THEN PartGet(ps.part_values[dw], sid) - 1
            ELSE ps.part_values[dw][x]]]

\* part_map[sid] = max(0, part_map.get(sid, 0) - 1)
MinusHandler(ps, dw, sid) ==
    [ps EXCEPT !.part_values[dw] =
        [x \in DOMAIN ps.part_values[dw] \cup {sid} |->
            IF x = sid THEN Max(0, PartGet(ps.part_values[dw], sid) - 1)
            ELSE ps.part_values[dw][x]]]

\* part_map[sid] = part_map.get(sid, 0) + 1
PlusHandler(ps, dw, sid) ==
    [ps EXCEPT !.part_values[dw] =
        [x \in DOMAIN ps.part_values[dw] \cup {sid} |->
            IF x = sid THEN PartGet(ps.part_values[dw], sid) + 1
            ELSE ps.part_values[dw][x]]]

SetPartSession(ps) ==
    /\ participation_date' = ps.participation_date
    /\ part_values' = ps.part_values

\* rows = [(sid, part_map.get(sid, 0)) for sid in all_ids], as table rows
ParticipationRows(part_map, dw) ==
    { [student_id |-> sid, date_week |-> dw, participation |-> PartGet(part_map, sid)] :
        sid \in PartAllIds(dw) }

\* mutant of save_participation_counts: the saved count is added to the
\* count already stored
save_participation_counts_Add(tbl, new_rows) ==
    {r \in tbl : ~\E n \in new_rows :
                    n.student_id = r.student_id /\ n.date_week = r.date_week}
        \cup { [n EXCEPT !.participation =
                    n.participation + ExistingPart(tbl, n.date_week, n.student_id)] :
               n \in new_rows }

\* INSERT INTO participation of every row of new_rows, UNIQUE(student_id,
\* date_week) ON CONFLICT REPLACE (the rows of new_rows differ in student_id)
save_participation_counts(tbl, new_rows) ==
    {r \in tbl : ~\E n \in new_rows :
                    n.student_id = r.student_id /\ n.date_week = r.date_week}
        \cup new_rows

\* whether saving new_rows replaces a stored row that holds another count
ReplacesCount(tbl, new_rows) ==
    \E r \in tbl, n \in new_rows :
        /\ n.student_id = r.student_id /\ n.date_week = r.date_week
        /\ n.participation # r.participation

TypeParticipationDate(access_code, v) ==
    /\ Strip(access_code) = TEACHER_CODE
    /\ v # participation_date_input
    /\ participation_date_input' = v
    /\ SetPartSession(RenderParticipation(PartSession, Strip(v)))
    /\ UNCHANGED << storeVars, studentVars, connVars, resolveVars, totalsVars, store_effect >>

\* the "-" button of student sid, then the execution st.rerun() starts
ClickPartMinus(access_code, sid) ==
    /\ Strip(access_code) = TEACHER_CODE
    /\ Strip(participation_date_input) # <<>>
    /\ sid \in PartAllIds(Strip(participation_date_input))
    /\ SetPartSession(
          RenderParticipation(
              MinusHandler(RenderParticipation(PartSession, Strip(participation_date_input)),
                           Strip(participation_date_input), sid),
              Strip(participation_date_input)))
    /\ UNCHANGED << storeVars, studentVars, connVars, participation_date_input,
                    resolveVars, totalsVars, store_effect >>

\* the "+" button of student sid, then the execution st.rerun() starts
ClickPartPlus(access_code, sid) ==
    /\ Strip(access_code) = TEACHER_CODE
    /\ Strip(participation_date_input) # <<>>
    /\ sid \in PartAllIds(Strip(participation_date_input))
    /\ PartGet(RenderParticipation(PartSession, Strip(participation_date_input))
                  .part_values[Strip(participation_date_input)], sid) < MaxCount
    /\ SetPartSession(
          RenderParticipation(
              PlusHandler(RenderParticipation(PartSession, Strip(participation_date_input)),
                          Strip(participation_date_input), sid),
              Strip(participation_date_input)))
    /\ UNCHANGED << storeVars, studentVars, connVars, participation_date_input,
                    resolveVars, totalsVars, store_effect >>

\* "Save Participation": the page is rendered, then the rows are saved
SaveParticipationStore(ps, dw) ==
    /\ SetPartSession(ps)
    /\ db_participation' = save_participation_counts(db_participation,
                              ParticipationRows(ps.part_values[dw], dw))
    /\ store_effect' = IF ReplacesCount(db_participation,
                                        ParticipationRows(ps.part_values[dw], dw))
                       THEN "participation_replaced"
                       ELSE "participation_saved"

ClickSaveParticipation(access_code) ==
    /\ Strip(access_code) = TEACHER_CODE
    /\ Strip(participation_date_input) # <<>>
    /\ PartAllIds(Strip(participation_date_input)) # {}
    /\ SaveParticipationStore(
          RenderParticipation(PartSession, Strip(participation_date_input)),
          Strip(participation_date_input))
    /\ UNCHANGED << db_answers, seq_answers, db_questions, db_logins,
                    db_class_scores, db_score_weights, now, studentVars, connVars,
                    participation_date_input, resolveVars, totalsVars >>

(***************************************************************************)
(* A call of load_questions, as Start and the question editor make it.     *)
(***************************************************************************)
CallLoadQuestions(date_arg) ==
    /\ resolve_arg' = date_arg
    /\ resolve_result' = Some(load_questions(date_arg))
    /\ UNCHANGED << query_arg, query_result >>
    /\ UNCHANGED << storeVars, studentVars, connVars, partVars, totalsVars, store_effect >>

(***************************************************************************)
(* Activity scores and the page "Total Score - All Time".  Scores are      *)
(* counted in hundredths, weights in tenths, so a weighted score is        *)
(* counted in thousandths.                                                 *)
(***************************************************************************)
\* mutant of save_class_scores: the rows are inserted without the UNIQUE
\* constraint's replacement
save_class_scores_Append(tbl, dw, score_rows) ==
    tbl \cup { [student_id |-> n.student_id, date_week |-> dw,
                score |-> n.score, note |-> n.note] : n \in score_rows }

\* INSERT INTO class_scores of every (student_id, score, note) of score_rows,
\* UNIQUE(student_id, date_week) ON CONFLICT REPLACE
save_class_scores(tbl, dw, score_rows) ==
    {r \in tbl : ~(r.date_week = dw /\
                   \E n \in score_rows : n.student_id = r.student_id)}
        \cup { [student_id |-> n.student_id, date_week |-> dw,
                score |-> n.score, note |-> n.note] : n \in score_rows }

\* the weight of load_score_weights when no weight is saved: 1.0
DEFAULT_WEIGHT == 10

load_score_weights(tbl) ==
    IF {r \in tbl : r.id = 1} = {}
    THEN [w_answers |-> DEFAULT_WEIGHT, w_class |-> DEFAULT_WEIGHT, w_part |-> DEFAULT_WEIGHT]
    ELSE [w_answers |-> (CHOOSE r \in tbl : r.id = 1).w_answers,
          w_class |-> (CHOOSE r \in tbl : r.id = 1).w_class,
          w_part |-> (CHOOSE r \in tbl : r.id = 1).w_part]

\* INSERT ... VALUES (1, ?, ?, ?) ON CONFLICT(id) DO UPDATE
save_score_weights(tbl, w_answers, w_class, w_part) ==
    {r \in tbl : r.id # 1}
        \cup { [id |-> 1, w_answers |-> w_answers, w_class |-> w_class, w_part |-> w_part] }

\* the sum of the column col over a set of rows
RECURSIVE SumColumn(_, _)
SumColumn(rows, col) ==
    IF rows = {} THEN 0
    ELSE (CHOOSE r \in rows : TRUE)[col]
            + SumColumn(rows \ {CHOOSE r \in rows : TRUE}, col)

\* the order of the store's text comparison on the symbols used
SymbolOrder == <<" ", "A", "B">>
SymbolRank(c) == CHOOSE i \in 1..Len(SymbolOrder) : SymbolOrder[i] = c

TextLess(a, b) ==
    \E k \in 1..(Len(b)) :
        /\ \A j \in 1..(k - 1) : j <= Len(a) /\ a[j] = b[j]
        /\ \/ k = Len(a) + 1
           \/ k <= Len(a) /\ SymbolRank(a[k]) < SymbolRank(b[k])

\* MAX(...) of a non-empty set of texts
MaxText(texts) == CHOOSE t \in texts : \A o \in texts : o = t \/ TextLess(o, t)

\* SELECT student_id, COUNT(*) AS Answers FROM answers GROUP BY student_id
answer_counts_all(sid) == Cardinality({r \in db_answers : r.student_id = sid})

\* SELECT student_id, SUM(score) ... FROM class_scores GROUP BY student_id
activity_scores_all(sid) ==
    SumColumn({r \in db_class_scores : r.student_id = sid}, "score")

\* SELECT student_id, SUM(participation) ... FROM participation GROUP BY student_id
participation_all(sid) ==
    SumColumn({r \in db_participation : r.student_id = sid}, "participation")

\* SELECT student_id, MAX(COALESCE(group_name, '')) ... ; .get(sid, "")
group_map_all(sid) ==
    IF {r \in db_answers : r.student_id = sid} = {} THEN <<>>
    ELSE MaxText({r.group_name : r \in {x \in db_answers : x.student_id = sid}})

\* all_ids of the totals page
TotalsAllIds ==
    {r.student_id : r \in db_answers} \cup {r.student_id : r \in db_class_scores}
        \cup {r.student_id : r \in db_participation}

\* round(x, 2) of a value counted in thousandths, in hundredths; a value
\* halfway between two hundredths goes up or down with the binary
\* representation of the float, which up stands for
Round2(x, up) ==
    IF x % 10 < 5 THEN x \div 10
    ELSE IF x % 10 > 5 THEN x \div 10 + 1
    ELSE IF up THEN x \div 10 + 1 ELSE x \div 10

\* mutant of FinalScore: the weights are left out
FinalScore_Unweighted(ans, act, part, ws) == ans * 1000 + act * 10 + part * 1000

\* final_score = ans * w_answers + act * w_class + part * w_part (thousandths)
FinalScore(ans, act, part, ws) ==
    ans * ws.w_answers_all[1] * 100 + act * ws.w_class_all[1]
        + part * ws.w_part_all[1] * 100

\* one element of rows
TotalRow(sid, ws, up) ==
    [ student_id |-> sid,
      group |-> Strip(group_map_all(sid)),
      answers |-> answer_counts_all(sid),
      activity_score |-> activity_scores_all(sid),
      participation |-> participation_all(sid),
      total_raw |-> answer_counts_all(sid) * 100 + activity_scores_all(sid)
                        + participation_all(sid) * 100,
      final_score |-> Round2(FinalScore(answer_counts_all(sid), activity_scores_all(sid),
                                        participation_all(sid), ws), up) ]

\* the label of the rows without group; the source's label is a Thai phrase
UNSPECIFIED_GROUP == <<"(unspecified)">>

\* mutant of GroupLabel: a blank group keeps its blank label
GroupLabel_Blank(g) == g

\* lambda g: g if g else <the label>
GroupLabel(g) == IF g # <<>> THEN g ELSE UNSPECIFIED_GROUP

\* one row of total_df.assign(Group=...).groupby("Group").agg(...)
GroupRow(label, members) ==
    [ group |-> label,
      members |-> Cardinality(members),
      answers |-> SumColumn(members, "answers"),
      activity_score |-> SumColumn(members, "activity_score"),
      participation |-> SumColumn(members, "participation"),
      total_raw |-> SumColumn(members, "total_raw"),
      final_score |-> SumColumn(members, "final_score") ]

GroupRows(tdf) ==
    { GroupRow(label, {r \in tdf : GroupLabel(r.group) = label}) :
        label \in {GroupLabel(r.group) : r \in tdf} }

\* the three weight widgets' session state
WeightState ==
    [ w_answers_all |-> w_answers_all, w_class_all |-> w_class_all,
      w_part_all |-> w_part_all ]

\* if "w_answers_all" not in st.session_state: ... = db_w_answers, and so on
InitWeights(ws, dbw) ==
    [ w_answers_all |-> IF ws.w_answers_all = None THEN Some(dbw.w_answers)
                        ELSE ws.w_answers_all,
      w_class_all |-> IF ws.w_class_all = None THEN Some(dbw.w_class)
                      ELSE ws.w_class_all,
      w_part_all |-> IF ws.w_part_all = None THEN Some(dbw.w_part)
                     ELSE ws.w_part_all ]

SetWeights(ws) ==
    /\ w_answers_all' = ws.w_answers_all
    /\ w_class_all' = ws.w_class_all
    /\ w_part_all' = ws.w_part_all

\* the tables the page shows with the weights ws
SetTables(ws) ==
    \E ups \in [TotalsAllIds -> BOOLEAN] :
        /\ total_df' = {TotalRow(sid, ws, ups[sid]) : sid \in TotalsAllIds}
        /\ group_df' = GroupRows({TotalRow(sid, ws, ups[sid]) : sid \in TotalsAllIds})

\* one execution of the page with the widgets holding ws
RenderTotals(ws) ==
    IF TotalsAllIds = {}
    THEN SetWeights(ws) /\ total_df' = {} /\ group_df' = {}
    ELSE /\ SetWeights(InitWeights(ws, load_score_weights(db_score_weights)))
         /\ SetTables(InitWeights(ws, load_score_weights(db_score_weights)))

\* the access code is typed: the page is shown
OpenTotals(access_code_total) ==
    /\ Strip(access_code_total) = TEACHER_CODE
    /\ RenderTotals(WeightState)
    /\ UNCHANGED << storeVars, studentVars, connVars, partVars, resolveVars, store_effect >>

TypeWeightAnswers(access_code_total, v) ==
    /\ Strip(access_code_total) = TEACHER_CODE
    /\ TotalsAllIds # {} /\ w_answers_all # None /\ w_answers_all # Some(v)
    /\ RenderTotals([WeightState EXCEPT !.w_answers_all = Some(v)])
    /\ UNCHANGED << storeVars, studentVars, connVars, partVars, resolveVars, store_effect >>

TypeWeightClass(access_code_total, v) ==
    /\ Strip(access_code_total) = TEACHER_CODE
    /\ TotalsAllIds # {} /\ w_class_all # None /\ w_class_all # Some(v)
    /\ RenderTotals([WeightState EXCEPT !.w_class_all = Some(v)])
    /\ UNCHANGED << storeVars, studentVars, connVars, partVars, resolveVars, store_effect >>

TypeWeightPart(access_code_total, v) ==
    /\ Strip(access_code_total) = TEACHER_CODE
    /\ TotalsAllIds # {} /\ w_part_all # None /\ w_part_all # Some(v)
    /\ RenderTotals([WeightState EXCEPT !.w_part_all = Some(v)])
    /\ UNCHANGED << storeVars, studentVars, connVars, partVars, resolveVars, store_effect >>

\* "Save weights as default": the widgets' values are saved, the tables follow
ClickSaveWeights(access_code_total) ==
    /\ Strip(access_code_total) = TEACHER_CODE
    /\ TotalsAllIds # {} /\ w_answers_all # None
    /\ db_score_weights' = save_score_weights(db_score_weights, w_answers_all[1],
                                              w_class_all[1], w_part_all[1])
    /\ SetWeights(WeightState)
    /\ SetTables(WeightState)
    /\ UNCHANGED << db_answers, seq_answers, db_questions, db_logins,
                    db_class_scores, db_participation, now,
                    studentVars, connVars, partVars, resolveVars, store_effect >>

\* the page is opened in a new browser session: no widget holds a value
NewTotalsSession ==
    /\ w_answers_all # None
    /\ w_answers_all' = None /\ w_class_all' = None /\ w_part_all' = None
    /\ total_df' = {} /\ group_df' = {}
    /\ UNCHANGED << storeVars, studentVars, connVars, partVars, resolveVars, store_effect >>

(***************************************************************************)
(* SpecDraft: one student works on drafts of every shape; the teacher may  *)
(* have saved a one-question set for the day.                              *)
(***************************************************************************)
DraftStudentIds == { <<" ", "S001">> }
DraftQuestionInputs == { <<" ">> }
DraftQuestionSets == { << <<"q1", " ">> >> }

NextDraft ==
    \/ \E v \in DraftStudentIds : TypeStudentId(v)
    \/ ClickStart
    \/ \E v \in DraftQuestionInputs : EditQuestion(v)
    \/ \E v \in AnswerInputs : EditAnswer(v)
    \/ ClickBack
    \/ ClickNext
    \/ ClickAdd
    \/ ClickPreview
    \/ ClickSubmit
    \/ \E qs \in DraftQuestionSets : ClickSaveQuestionSet(TEACHER_CODE, TODAY, qs)

SpecDraft == Init /\ [][NextDraft]_vars

(***************************************************************************)
(* SpecSubmit: two students submit and submit again, with drafts of        *)
(* different lengths and group names.                                      *)
(***************************************************************************)
SubmitStudentIds == { <<"S001">>, <<"S002", " ">> }
SubmitAnswerInputs == { <<"a", " ">> }
SubmitGroupInputs == { <<"A", " ">> }

NextSubmit ==
    \/ \E v \in SubmitStudentIds : TypeStudentId(v)
    \/ ClickStart
    \/ \E v \in SubmitAnswerInputs : EditAnswer(v)
    \/ \E v \in SubmitGroupInputs : TypeGroupName(v)
    \/ ClickNext
    \/ ClickAdd
    \/ ClickPreview
    \/ ClickSubmit
    \/ \E qs \in DraftQuestionSets : ClickSaveQuestionSet(TEACHER_CODE, TODAY, qs)

SpecSubmit == Init /\ [][NextSubmit]_vars

(***************************************************************************)
(* SpecLogin: students press LOGIN, again and again, while time passes.    *)
(***************************************************************************)
NextLogin ==
    \/ \E v \in StudentIdInputs : TypeStudentId(v)
    \/ \E v \in DateInputs : TypeDateWeek(v)
    \/ ClickLogin
    \/ Tick

SpecLogin == Init /\ [][NextLogin]_vars

(***************************************************************************)
(* SpecParticipation: two students log in, for today and then for a week  *)
(* label; the teacher counts participation and saves it, for today and     *)
(* then for the week label.                                                *)
(***************************************************************************)
PartStudentIds == { <<"S001">>, <<"S002", " ">> }
PartStudentDates == { <<"w1", " ">> }
PartTeacherDates == { <<" ", "w1">> }
PartIds == { <<"S001">>, <<"S002">> }

NextParticipation ==
    \/ \E v \in PartStudentIds : TypeStudentId(v)
    \/ \E v \in PartStudentDates : TypeDateWeek(v)
    \/ ClickLogin
    \/ \E v \in PartTeacherDates : TypeParticipationDate(TEACHER_CODE, v)
    \/ \E sid \in PartIds : ClickPartMinus(TEACHER_CODE, sid)
    \/ \E sid \in PartIds : ClickPartPlus(TEACHER_CODE, sid)
    \/ ClickSaveParticipation(TEACHER_CODE)

SpecParticipation == Init /\ [][NextParticipation]_vars

(***************************************************************************)
(* SpecQuestions: the teacher saves question lists, blank fields included, *)
(* for two dates, and load_questions is called with every kind of          *)
(* argument.                                                               *)
(***************************************************************************)
MaxQuestions == 2
QuestionTexts == { <<>>, <<"q1">>, <<" ", "q2">> }
QuestionLists == UNION { [1..n -> QuestionTexts] : n \in 1..MaxQuestions }
ManageDates == { TODAY, <<"w1", " ">> }
ResolveArgs == { None, Some(<<>>), Some(TODAY), Some(<<"w1">>), Some(<<"w2">>) }

NextQuestions ==
    \/ \E d \in ManageDates, qs \in QuestionLists :
          ClickSaveQuestionSet(TEACHER_CODE, d, qs)
    \/ \E a \in ResolveArgs : CallLoadQuestions(a)

SpecQuestions == Init /\ [][NextQuestions]_vars

(***************************************************************************)
(* SpecTotals: the totals page over stores that students' submissions and  *)
(* the teacher's saves have filled.                                        *)
(***************************************************************************)
\* a SUBMIT of student sid for the date dw with n answered slots
Submission(st, sid, dw, n, grp) ==
    [ rows |-> save_answers(st.rows, st.seq, sid, dw,
                   QaList([current_questions |-> SubSeq(DEFAULT_QUESTIONS, 1, n),
                           answers |-> [i \in 1..n |-> <<"a">>]]), grp),
      seq |-> st.seq + n ]

NoAnswers == [rows |-> {}, seq |-> 0]
OneSubmission == Submission(NoAnswers, <<"S001">>, TODAY, 3, <<"A", " ">>)

TotalsAnswerStores ==
    { NoAnswers,
      OneSubmission,
      Submission(OneSubmission, <<"S002">>, TODAY, 1, <<>>),
      Submission(OneSubmission, <<"S001">>, <<"w1">>, 1, <<"B">>) }

ScoreRow(sid, score) == [student_id |-> sid, score |-> score, note |-> <<>>]

TotalsScoreStores ==
    { {},
      save_class_scores({}, TODAY, {ScoreRow(<<"S001">>, 250)}),
      save_class_scores(
          save_class_scores({}, TODAY, {ScoreRow(<<"S001">>, 200), ScoreRow(<<"S002">>, 1)}),
          <<"w1">>, {ScoreRow(<<"S001">>, 50)}) }

PartRow(sid, dw, n) == [student_id |-> sid, date_week |-> dw, participation |-> n]

TotalsParticipationStores ==
    { {},
      save_participation_counts({}, {PartRow(<<"S001">>, TODAY, 4)}),
      save_participation_counts(
          save_participation_counts({}, {PartRow(<<"S001">>, TODAY, 3),
                                         PartRow(<<"S003">>, TODAY, 2)}),
          {PartRow(<<"S001">>, <<"w1">>, 1)}) }

\* every student has logged in for both dates
TotalsLogins ==
    { [student_id |-> sid, date_week |-> dw, logged_at |-> 0] :
        sid \in { <<"S001">>, <<"S002">>, <<"S003">> }, dw \in { TODAY, <<"w1">> } }

InitTotals ==
    /\ now = 0
    /\ \E st \in TotalsAnswerStores : db_answers = st.rows /\ seq_answers = st.seq
    /\ db_questions = {}
    /\ db_logins = TotalsLogins
    /\ db_class_scores \in TotalsScoreStores
    /\ db_participation \in TotalsParticipationStores
    /\ db_score_weights = {}
    /\ InitSession

AnswersWeightInputs == { 10, 20 }
ClassWeightInputs == { 1, 5, 10, 20 }
PartWeightInputs == { 5, 10 }

NextTotals ==
    \/ OpenTotals(TEACHER_CODE)
    \/ \E v \in AnswersWeightInputs : TypeWeightAnswers(TEACHER_CODE, v)
    \/ \E v \in ClassWeightInputs : TypeWeightClass(TEACHER_CODE, v)
    \/ \E v \in PartWeightInputs : TypeWeightPart(TEACHER_CODE, v)
    \/ ClickSaveWeights(TEACHER_CODE)
    \/ NewTotalsSession

SpecTotals == InitTotals /\ [][NextTotals]_vars

(***************************************************************************)
(* Properties of the draft and of Submit.                                  *)
(***************************************************************************)
\* the rows of tbl stored for the pair (sid, dw)
RowsOf(tbl, sid, dw) == {r \in tbl : r.student_id = sid /\ r.date_week = dw}

\* a step in which SUBMIT wrote to the store
SubmitStep_ == seq_answers' # seq_answers

\* what a row holds besides its id
RowContent(r) ==
    << r.question_no, r.question, r.answer, r.group_name, r.checked >>

\* C1: a Submit for (S, D) leaves for (S, D) exactly the rows of the draft
\* just submitted, one per slot and none of the rows stored before, and
\* leaves the rows of every other pair as they were.
C1_ReplaceAll ==
    [][SubmitStep_ =>
        LET sid == Strip(student_id)
            dw == Strip(date_week)
        IN  /\ Cardinality(RowsOf(db_answers', sid, dw)) = Len(current_questions)
            /\ {RowContent(r) : r \in RowsOf(db_answers', sid, dw)} =
                  { << i, Strip(current_questions[i]), Strip(answers[i]),
                       Strip(group_name_input), 0 >> : i \in 1..Len(current_questions) }
            /\ RowsOf(db_answers', sid, dw) \cap db_answers = {}
            /\ db_answers' \ RowsOf(db_answers', sid, dw) =
                  db_answers \ RowsOf(db_answers, sid, dw)]_vars

\* C1 witness: a pair was submitted twice (ids were handed out to rows that
\* are gone) with a second draft of another length than the first, while
\* another student's rows are stored
C1_Witness ==
    /\ \E r1, r2 \in db_answers : r1.student_id # r2.student_id
    /\ Cardinality(db_answers) < seq_answers
    /\ \E r \in db_answers : r.id = seq_answers /\ r.question_no = 2

\* C2: a Submit commits, for the pair it writes, rows whose question_no
\* values are exactly 1..N without gap or repeat, N being the number of
\* slots of the draft when SUBMIT is pressed.
C2_OrdinalsContiguous ==
    [][SubmitStep_ =>
        LET rows == RowsOf(db_answers', Strip(student_id), Strip(date_week))
        IN  /\ {r.question_no : r \in rows} = 1..Len(current_questions)
            /\ Cardinality(rows) = Len(current_questions)]_vars

\* C2 witness: a draft that was grown by Add Question has been committed
C2_Witness ==
    \E r \in db_answers : r.question_no = 2 /\ r.question = <<>>
                          /\ Cardinality(RowsOf(db_answers, r.student_id, r.date_week)) = 2

\* every answer of the draft is non-blank after trimming
AllAnswersNonBlank == \A i \in 1..Len(answers) : Strip(answers[i]) # <<>>

\* C3: while a draft is active, Preview is enabled exactly when every answer
\* is non-blank after trimming, and SUBMIT is enabled only then (it is
\* evaluated anew in every execution); no stored answer row has an empty
\* answer.
C3_AnswerGate ==
    /\ (started /\ page.shown) =>
          /\ page.preview_enabled <=> AllAnswersNonBlank
          /\ page.submit_enabled <=> (show_preview /\ AllAnswersNonBlank)
    /\ \A r \in db_answers : r.answer # <<>>

\* C3 witness: a row with an empty question text is stored, and in a later
\* draft an answer was blanked after Preview: SUBMIT is shown but disabled
C3_Witness ==
    /\ \E r \in db_answers : r.question = <<>>
    /\ started /\ show_preview /\ page.submit_shown /\ ~page.submit_enabled
    /\ \E i \in 1..Len(current_questions) : Strip(current_questions[i]) = <<>>

\* C4 (as claimed): on the screen of an active draft, Next is enabled iff
\* cursor < length - 1 and the answer at the cursor is non-blank after
\* trimming, and Back is enabled iff cursor > 0.
C4_AdvanceGate ==
    (started /\ page.shown) =>
        /\ page.next_enabled <=>
              (q_index < Len(current_questions) - 1 /\ Strip(answers[q_index + 1]) # <<>>)
        /\ page.back_enabled <=> (q_index > 0)

(***************************************************************************)
(* Properties of the ledger.                                               *)
(***************************************************************************)
SamePair(r1, r2) == r1.student_id = r2.student_id /\ r1.date_week = r2.date_week

\* C5: Once a login event is stored it stays as it is (later LOGINs for
\* its pair change neither its timestamp nor anything else in the
\* collection), no pair ever has two events, and after a LOGIN with a
\* non-blank student the pair has exactly one event.
C5_LoginIdempotent ==
    [][/\ db_logins \subseteq db_logins'
       /\ \A e1, e2 \in db_logins' : SamePair(e1, e2) => e1 = e2
       /\ store_effect' = "login_ignored" => db_logins' = db_logins
       /\ (ClickLogin /\ Strip(student_id) # <<>>) =>
              Cardinality(RowsOf(db_logins', Strip(student_id), SelectedDate(date_week))) = 1
      ]_vars

\* C5 witness: LOGIN was pressed again, later, for a pair that has an event:
\* the event still carries the time of the first LOGIN
C5_Witness ==
    /\ store_effect = "login_ignored"
    /\ \E e \in db_logins :
          /\ e.student_id = Strip(student_id) /\ e.date_week = SelectedDate(date_week)
          /\ e.logged_at < now

\* C6: a Save Participation for the date D stores, for every student of
\* its batch, exactly one row that holds the count given in the batch (the
\* count shown on the page), whatever was stored before, and leaves the rows
\* of every pair outside the batch, all other dates included, as they were;
\* nothing else changes the table.
C6_ParticipationReplace ==
    [][db_participation' # db_participation =>
        LET dw == Strip(participation_date_input)
        IN  /\ \A sid \in PartAllIds(dw) :
                  {r.participation : r \in RowsOf(db_participation', sid, dw)}
                      = {PartGet(part_values'[dw], sid)}
            /\ \A sid \in PartAllIds(dw) :
                  Cardinality(RowsOf(db_participation', sid, dw)) = 1
            /\ {r \in db_participation' : ~(r.date_week = dw /\ r.student_id \in PartAllIds(dw))}
                  = {r \in db_participation : ~(r.date_week = dw /\ r.student_id \in PartAllIds(dw))}
      ]_vars

\* C6 witness: a save has just replaced a stored count by a smaller one
\* while a count of another date is stored
C6_Witness ==
    /\ store_effect = "participation_replaced"
    /\ \E r1, r2 \in db_participation :
          /\ r1.date_week # r2.date_week
          /\ r1.date_week = Strip(participation_date_input)
          /\ r1.participation = 0
          /\ r2.participation = MaxCount

(***************************************************************************)
(* Properties of question sets.                                            *)
(***************************************************************************)
\* C7: a call of load_questions returns the 3-element default list when its
\* argument is None, when it is the empty string and when no entry is
\* stored for the date; otherwise it returns the stored question texts of
\* the date in ascending order of question_no; it never returns an empty
\* list.
C7_DefaultFallback ==
    [][resolveVars' # resolveVars =>
        LET rows == IF resolve_arg' \in {None, Some(<<>>)} THEN {}
                    ELSE {r \in db_questions : r.date_week = resolve_arg'[1]}
            res == resolve_result'[1]
        IN  /\ res # <<>>
            /\ Len(DEFAULT_QUESTIONS) = 3
            /\ rows = {} => res = DEFAULT_QUESTIONS
            /\ rows # {} =>
                  /\ Len(res) = Cardinality(rows)
                  /\ \A r \in rows :
                        res[1 + Cardinality({o \in rows : o.question_no < r.question_no})]
                            = r.question
      ]_vars

\* C7 witness: the call returned the two stored questions of a date, the
\* one with the smaller question_no first
C7_Witness ==
    /\ resolve_arg \notin {None, Some(<<>>)}
    /\ \E r1, r2 \in db_questions :
          /\ r1.date_week = resolve_arg[1] /\ r2.date_week = resolve_arg[1]
          /\ r1.question_no < r2.question_no
          /\ r1.question = <<"q2">> /\ r2.question = <<"q1">>
          /\ resolve_result = Some(<< r1.question, r2.question >>)

\* C10 (as claimed): for every date, the question_no values of the stored
\* entries are exactly 1..K, K the number of stored entries of the date.
C10_OrdinalsGapFree ==
    \A d \in {r.date_week : r \in db_questions} :
        {r.question_no : r \in {x \in db_questions : x.date_week = d}}
            = 1..Cardinality({x \in db_questions : x.date_week = d})

(***************************************************************************)
(* Properties of the totals page.                                          *)
(***************************************************************************)
\* the students with a record of any kind
StudentsOnRecord ==
    {r.student_id : r \in db_answers} \cup {r.student_id : r \in db_class_scores}
        \cup {r.student_id : r \in db_participation}

\* answers * w_answers + activity * w_class + participation * w_part of a
\* student, in thousandths, from the stored rows (0 where none is stored)
WeightedSum(sid) ==
    Cardinality({r \in db_answers : r.student_id = sid}) * w_answers_all[1] * 100
        + SumColumn({r \in db_class_scores : r.student_id = sid}, "score") * w_class_all[1]
        + SumColumn({r \in db_participation : r.student_id = sid}, "participation")
              * w_part_all[1] * 100

\* C8 (as claimed): every student's final score equals answers * w_answers +
\* activity * w_class + participation * w_part.
C8_FinalScoreExact ==
    total_df # {} =>
        \A r \in total_df : r.final_score * 10 = WeightedSum(r.student_id)

\* C8 (amended): the table has one row for every student on record, and
\* every student's final score equals answers * w_answers + activity *
\* w_class + participation * w_part rounded to two decimal places, the
\* three amounts defaulting to 0; with answers = 3, activity = 2.5,
\* participation = 4 and weights (1.0, 2.0, 0.5) it is 10.0.
C8_FinalScoreRounded ==
    total_df # {} =>
        /\ {r.student_id : r \in total_df} = StudentsOnRecord
        /\ \A r1, r2 \in total_df : r1.student_id = r2.student_id => r1 = r2
        /\ \A r \in total_df :
              /\ r.final_score * 10 - WeightedSum(r.student_id) \in -5..5
              /\ ( /\ r.answers = 3 /\ r.activity_score = 250 /\ r.participation = 4
                   /\ << w_answers_all, w_class_all, w_part_all >>
                          = << Some(10), Some(20), Some(5) >> )
                    => r.final_score = 1000

\* C8 witness: the example's student, whose activity and participation are
\* sums over two dates, is shown with final score 10.0 next to a student
\* without answers and without activity score
C8_Witness ==
    /\ << w_answers_all, w_class_all, w_part_all >> = << Some(10), Some(20), Some(5) >>
    /\ \E r \in total_df :
          /\ r.answers = 3 /\ r.activity_score = 250 /\ r.participation = 4
          /\ Cardinality({x \in db_class_scores : x.student_id = r.student_id}) = 2
          /\ Cardinality({x \in db_participation : x.student_id = r.student_id}) = 2
          /\ r.final_score = 1000
    /\ \E r \in total_df : r.answers = 0 /\ r.activity_score = 0 /\ r.final_score > 0

\* C9: every student row belongs to exactly one group row, the rows with a
\* blank group to the row labelled "unspecified", of which there is at most
\* one; every column of a group row is the sum of the column over its
\* member rows; two students with the groups "A" and "" give two group
\* rows.
C9_GroupRollup ==
    total_df # {} =>
        /\ \A r \in total_df :
              /\ Cardinality({g \in group_df :
                    g.group = IF r.group = <<>> THEN UNSPECIFIED_GROUP ELSE r.group}) = 1
              /\ r.group = <<>> => ~\E g \in group_df : g.group = <<>>
        /\ \A g \in group_df :
              LET members == {r \in total_df :
                                (IF r.group = <<>> THEN UNSPECIFIED_GROUP ELSE r.group) = g.group}
              IN  /\ members # {}
                  /\ g.members = Cardinality(members)
                  /\ g.answers = SumColumn(members, "answers")
                  /\ g.activity_score = SumColumn(members, "activity_score")
                  /\ g.participation = SumColumn(members, "participation")
                  /\ g.total_raw = SumColumn(members, "total_raw")
                  /\ g.final_score = SumColumn(members, "final_score")
        /\ {r.group : r \in total_df} = { <<"A">>, <<>> } /\ Cardinality(total_df) = 2
              => Cardinality(group_df) = 2

\* C9 witness: two students, one of group "A" and one without group, are
\* shown in two group rows, one of them labelled "unspecified"
C9_Witness ==
    /\ Cardinality(total_df) = 2
    /\ {r.group : r \in total_df} = { <<"A">>, <<>> }
    /\ Cardinality(group_df) = 2
    /\ \E g \in group_df : g.group = UNSPECIFIED_GROUP /\ g.final_score > 0

(***************************************************************************)
(* Properties of Start, Submit and the draft's shape.                      *)
(***************************************************************************)
\* C11 (as claimed): a SUBMIT that stores leaves the whole draft at its
\* defaults: not started, cursor 0, no preview, no group name, three blank
\* answers, and the question list of the session defaults, nothing of the
\* submitted draft's question texts remaining.
C11_SubmitReset ==
    [][SubmitStep_ =>
        /\ ~started'
        /\ q_index' = 0
        /\ ~show_preview'
        /\ group_name' = <<>>
        /\ answers' = << <<>>, <<>>, <<>> >>
        /\ current_questions' = DEFAULT_QUESTIONS
      ]_vars

\* C11, the part that holds: everything but the question list is reset
C11_ResetButQuestions ==
    [][SubmitStep_ =>
        /\ ~started'
        /\ q_index' = 0
        /\ ~show_preview'
        /\ group_name' = <<>>
        /\ answers' = << <<>>, <<>>, <<>> >>
        /\ current_questions' = current_questions
      ]_vars

\* C12 (as claimed): START pressed with a student id that is non-blank after
\* trimming, in any draft state, leaves an active draft whose questions are
\* load_questions(selected date), whose answers are as many blanks, with
\* cursor 0, no preview and no group name, and leaves the store unchanged.
C12_StartFresh ==
    [][(ClickStart /\ Strip(student_id) # <<>>) =>
        /\ started'
        /\ current_questions' = load_questions(Some(SelectedDate(date_week)))
        /\ answers' = [i \in 1..Len(current_questions') |-> <<>>]
        /\ q_index' = 0
        /\ ~show_preview'
        /\ group_name' = <<>>
        /\ UNCHANGED storeVars
      ]_vars

\* C13: while a draft is active it has at least one slot, the cursor is
\* within 0..length-1 and there are exactly as many answers as questions.
C13_DraftShape ==
    started =>
        /\ Len(current_questions) >= 1
        /\ q_index \in 0..(Len(current_questions) - 1)
        /\ Len(answers) = Len(current_questions)

\* C13 witness: a slot was appended to a one-question draft and Back was
\* pressed: the cursor is 0 while the screen still shows the appended slot
C13_Witness ==
    /\ started
    /\ Len(current_questions) = 2 /\ current_questions[2] = <<>>
    /\ q_index = 0
    /\ page.shown /\ page.q_idx = 1

(***************************************************************************)
(* SpecRecordLogin: log_student_login called with every kind of argument:  *)
(* empty, whitespace only, and a label.                                    *)
(***************************************************************************)
LoginIdArgs == { <<>>, <<" ">>, <<"S001">> }
LoginDateArgs == { <<>>, <<" ">>, <<"w1">>, TODAY }

CallLogStudentLogin(sid, dw) ==
    /\ db_logins' = log_student_login(db_logins, sid, dw)
    /\ store_effect' = IF db_logins' # db_logins THEN "login_inserted"
                       ELSE "login_ignored"
    /\ UNCHANGED << db_answers, seq_answers, db_questions, db_class_scores,
                    db_participation, db_score_weights, now,
                    studentVars, teacherVars >>

NextRecordLogin ==
    \/ \E sid \in LoginIdArgs, dw \in LoginDateArgs : CallLogStudentLogin(sid, dw)
    \/ Tick

SpecRecordLogin == Init /\ [][NextRecordLogin]_vars

\* C14 (as claimed): a call of log_student_login whose student id or date
\* label is blank after trimming leaves the login events as they were.
C14_BlankLoginNoOp ==
    [][\A sid \in LoginIdArgs, dw \in LoginDateArgs :
          (CallLogStudentLogin(sid, dw) /\ (Strip(sid) = <<>> \/ Strip(dw) = <<>>))
              => db_logins' = db_logins]_vars

\* what log_student_login does refuse: an argument that is the empty text
C14_EmptyLoginNoOp ==
    [][\A sid \in LoginIdArgs, dw \in LoginDateArgs :
          (CallLogStudentLogin(sid, dw) /\ (sid = <<>> \/ dw = <<>>))
              => db_logins' = db_logins]_vars

\* no stored login event has a student id or a date label that is blank
\* after trimming: holds of the LOGIN button (SpecLogin), which trims the id
\* and never passes a blank date, and fails of log_student_login on its own
C14_NoBlankLoginStored ==
    \A r \in db_logins : Strip(r.student_id) # <<>> /\ Strip(r.date_week) # <<>>

(***************************************************************************)
(* SpecValidation: START and LOGIN pressed with and without a Student ID,  *)
(* before a draft is started and while one is being written.               *)
(***************************************************************************)
ValidationStudentIds == { <<" ">>, <<"S001">> }

NextValidation ==
    \/ \E v \in ValidationStudentIds : TypeStudentId(v)
    \/ ClickStart
    \/ ClickLogin
    \/ \E v \in AnswerInputs : EditAnswer(v)
    \/ \E v \in GroupInputs : TypeGroupName(v)
    \/ ClickBack
    \/ ClickNext
    \/ ClickPreview

SpecValidation == Init /\ [][NextValidation]_vars

\* C15: START or LOGIN pressed while the Student ID is blank after trimming
\* changes neither the draft (started, questions, answers, cursor, group
\* name, preview) nor any table of the store; the Student ID field and both
\* buttons are as before, so the press can be repeated.
C15_RefusedPressChangesNothing ==
    [][((ClickStart \/ ClickLogin) /\ Strip(student_id) = <<>>) =>
          /\ UNCHANGED << started, current_questions, answers, q_index,
                          group_name, show_preview >>
          /\ UNCHANGED storeVars
          /\ student_id' = student_id]_vars

\* C15 witness: LOGIN was refused while a draft with an answer, a group name
\* and the preview open was on the screen
C15_Witness ==
    /\ store_effect = "login_refused"
    /\ Strip(student_id) = <<>>
    /\ started /\ show_preview
    /\ answers[1] # <<>> /\ group_name # <<>>

(***************************************************************************)
(* SpecConcurrentSubmit: the student's session and another session submit  *)
(* for the same student and date, statement by statement; the store may    *)
(* fail in any statement.                                                  *)
(***************************************************************************)
ConcurrentStudentIds == { <<"S001">> }
ConcurrentAnswerInputs == { <<"a", " ">> }
OtherQaLists ==
    { << [question_no |-> 1, question |-> <<"q">>, answer |-> <<"b">>] >> }

NextConcurrentSubmit ==
    \/ ~InSave /\ \E v \in ConcurrentStudentIds : TypeStudentId(v)
    \/ ~InSave /\ ClickStart
    \/ ~InSave /\ \E v \in ConcurrentAnswerInputs : EditAnswer(v)
    \/ ~InSave /\ ClickNext
    \/ ~InSave /\ ClickPreview
    \/ SubmitCall
    \/ \E sid \in ConcurrentStudentIds, qa \in OtherQaLists :
          OtherSubmitCall(sid, TODAY, qa, <<>>)
    \/ \E w \in Writers : ExecDelete(w)
    \/ \E w \in Writers : ExecInsert(w)
    \/ \E w \in Writers : ExecCommit(w)
    \/ \E w \in Writers : ExecFail(w)

SpecConcurrentSubmit == Init /\ [][NextConcurrentSubmit]_vars

\* C16: when the store fails during the write of a Submit, after the DELETE
\* or after any number of the INSERTs, no statement of that write has
\* changed the stored answers (they are as before the Submit: not emptied,
\* no new row), and the draft is as it was when SUBMIT was pressed (still
\* started, same questions, answers, cursor, group name, preview open) with
\* SUBMIT on the screen to be pressed again.
C16_FailedSubmitWritesNothing ==
    [][/\ (\E w \in Writers : ExecDelete(w) \/ ExecInsert(w) \/ ExecFail(w))
            => UNCHANGED << db_answers, seq_answers >>
       /\ (\/ SubmitCall
           \/ ExecDelete(SESSION_WRITER)
           \/ ExecInsert(SESSION_WRITER)
           \/ ExecFail(SESSION_WRITER))
            => UNCHANGED << started, current_questions, answers, q_index,
                            group_name, show_preview >>
       /\ ExecFail(SESSION_WRITER)
            => /\ started' /\ show_preview'
               /\ page'.shown /\ page'.submit_shown /\ page'.submit_enabled
               /\ ~InSave']_vars

\* C16 witness: answers of the student and date are stored, and a later
\* Submit of the session failed after the DELETE and two of its INSERTs
C16_Witness ==
    /\ conn[SESSION_WRITER].result = "failed"
    /\ conn[SESSION_WRITER].i = 2
    /\ RowsOf(db_answers, Strip(student_id), Strip(date_week)) # {}
    /\ started /\ show_preview

\* what a stored answer or an item of a submission says
AnswerOf(r) == << r.question_no, r.question, r.answer >>

ItemsOf(c) == { c.items[k] : k \in 1..Len(c.items) }

\* C17: when two sessions submit for the same student and date at the same
\* time, then however their statements interleave the stored answers change
\* only when one of them commits, and after a commit the rows of the pair
\* are exactly the rows of the submission that committed: one row per item,
\* no row of the other submission, no ordinal twice, not empty; the commit
\* succeeds whatever the other writer stored.
C17_LastCommitWins ==
    [][/\ db_answers' # db_answers => \E w \in Writers : ExecCommit(w)
       /\ \A w \in Writers :
             (ExecCommit(w) /\ conn[w].table = "answers") =>
                /\ { AnswerOf(r) : r \in RowsOf(db_answers', conn[w].sid, conn[w].dw) }
                      = { AnswerOf(item) : item \in ItemsOf(conn[w]) }
                /\ Cardinality(RowsOf(db_answers', conn[w].sid, conn[w].dw))
                      = Len(conn[w].items)
                /\ RowsOf(db_answers', conn[w].sid, conn[w].dw) # {}
                /\ conn'[w].result = "committed"]_vars

\* C17 witness: both sessions have committed for the same student and date,
\* the other session last: its one row replaced the three of the student's
C17_Witness ==
    /\ conn[SESSION_WRITER].result = "committed"
    /\ conn[SESSION_WRITER].table = "answers"
    /\ conn[OTHER_WRITER].result = "committed"
    /\ seq_answers = 4
    /\ { AnswerOf(r) : r \in RowsOf(db_answers, Strip(student_id), Strip(date_week)) }
          = { << 1, <<"q">>, <<"b">> >> }

\* both calls of save_answers are in progress: the student's session holds
\* the write lock, the other session waits for it
C17_BothWriting ==
    /\ conn[SESSION_WRITER].pc = "insert" /\ conn[SESSION_WRITER].dirty
    /\ conn[OTHER_WRITER].pc = "delete"
    /\ conn[OTHER_WRITER].sid = conn[SESSION_WRITER].sid
    /\ conn[OTHER_WRITER].dw = conn[SESSION_WRITER].dw

(***************************************************************************)
(* SpecConcurrentSave: two teachers save question sets for the same date,  *)
(* statement by statement.                                                 *)
(***************************************************************************)
ConcurrentQuestionSets ==
    { << <<"q1">>, <<"q2", " ">> >>,
      << <<"x">> >>,
      << <<" ">>, <<"y">> >> }
ConcurrentDates == { TODAY, <<"w1", " ">> }

NextConcurrentSave ==
    \/ \E w \in Writers, d \in ConcurrentDates, qs \in ConcurrentQuestionSets :
          SaveQuestionSetCall(w, TEACHER_CODE, d, qs)
    \/ \E w \in Writers : ExecDelete(w)
    \/ \E w \in Writers : ExecInsert(w)
    \/ \E w \in Writers : ExecCommit(w)
    \/ \E w \in Writers : ExecFail(w)

SpecConcurrentSave == Init /\ [][NextConcurrentSave]_vars

QuestionsOf(tbl, dw) == {r \in tbl : r.date_week = dw}

\* C18: when two teachers save a question set for the same date at the same
\* time, then however their statements interleave the stored questions
\* change only when one of them commits, and after a commit the questions of
\* the date are exactly the set that save wrote: none of the other save's.
C18_LastSaveWins ==
    [][/\ db_questions' # db_questions => \E w \in Writers : ExecCommit(w)
       /\ \A w \in Writers :
             (ExecCommit(w) /\ conn[w].table = "questions") =>
                /\ { << r.question_no, r.question >> :
                        r \in QuestionsOf(db_questions', conn[w].dw) }
                      = { << item.question_no, item.question >> :
                            item \in ItemsOf(conn[w]) }
                /\ \A r \in db_questions' :
                      r.date_week # conn[w].dw => r \in db_questions
                /\ \A r \in db_questions :
                      r.date_week # conn[w].dw => r \in db_questions']_vars

\* C18 witness: both teachers have committed a set for today, one of two
\* questions and then one of one question, which alone is stored
C18_Witness ==
    /\ conn[SESSION_WRITER].result = "committed" /\ conn[SESSION_WRITER].i = 2
    /\ conn[OTHER_WRITER].result = "committed" /\ conn[OTHER_WRITER].i = 1
    /\ conn[SESSION_WRITER].table = "questions"
    /\ { << r.question_no, r.question >> : r \in QuestionsOf(db_questions, TODAY) }
          = { << 1, <<"x">> >> }

\* both saves are in progress for the same date
C18_BothSaving ==
    /\ conn[SESSION_WRITER].pc = "insert" /\ conn[SESSION_WRITER].dirty
    /\ conn[OTHER_WRITER].pc = "delete"
    /\ conn[OTHER_WRITER].dw = conn[SESSION_WRITER].dw
    /\ conn[OTHER_WRITER].items # conn[SESSION_WRITER].items

(***************************************************************************)
(* load_answers.  The student ids it searches are spelled sign by sign.    *)
(***************************************************************************)
\* the signs used, in the order of the store's text comparison
CharOrder == << "%", "1", "2", "S", "_", "s" >>
CharRank(ch) == CHOOSE k \in 1..Len(CharOrder) : CharOrder[k] = ch

\* LIKE compares the letters A-Z without regard to case
FoldCase(ch) == IF ch = "S" THEN "s" ELSE ch

\* text LIKE pattern: % stands for any text, _ for any one sign
RECURSIVE LikeMatch(_, _)
LikeMatch(pattern, text) ==
    IF pattern = <<>> THEN text = <<>>
    ELSE IF Head(pattern) = "%"
    THEN LikeMatch(Tail(pattern), text)
            \/ (text # <<>> /\ LikeMatch(pattern, Tail(text)))
    ELSE /\ text # <<>>
         /\ Head(pattern) = "_" \/ FoldCase(Head(pattern)) = FoldCase(Head(text))
         /\ LikeMatch(Tail(pattern), Tail(text))

\* WHERE date_week = ? AND student_id LIKE ?, each condition only "if
\* date_week:" / "if student_search:", the pattern being f"%{student_search}%"
AnswersWhere(tbl, date_arg, student_search) ==
    {r \in tbl :
        /\ (date_arg # None /\ date_arg[1] # <<>>) => r.date_week = date_arg[1]
        /\ student_search # <<>> =>
              LikeMatch(<<"%">> \o student_search \o <<"%">>, r.student_id)}

\* the order of two student ids in ORDER BY student_id
IdLess(a, b) ==
    \E k \in 1..Len(b) :
        /\ \A j \in 1..(k - 1) : j <= Len(a) /\ a[j] = b[j]
        /\ \/ k = Len(a) + 1
           \/ k <= Len(a) /\ CharRank(a[k]) < CharRank(b[k])

\* ORDER BY student_id, question_no: r is not after q
InOrder(r, q) ==
    \/ IdLess(r.student_id, q.student_id)
    \/ r.student_id = q.student_id /\ r.question_no <= q.question_no

\* the results the SELECT may give: the rows in every order that ORDER BY
\* student_id, question_no allows
load_answers(tbl, date_arg, student_search) ==
    { df \in [1..Cardinality(AnswersWhere(tbl, date_arg, student_search))
                -> AnswersWhere(tbl, date_arg, student_search)] :
        /\ \A i, j \in DOMAIN df : i < j => df[i] # df[j] /\ InOrder(df[i], df[j]) }

CallLoadAnswers(date_arg, student_search) ==
    /\ query_arg' = Some([date_week |-> date_arg, student_search |-> student_search])
    /\ \E df \in load_answers(db_answers, date_arg, student_search) :
          query_result' = Some(df)
    /\ UNCHANGED << storeVars, studentVars, partVars, totalsVars, connVars,
                    resolve_arg, resolve_result, store_effect >>

(***************************************************************************)
(* SpecQuery: load_answers called on stores that hold the answers of       *)
(* students whose ids differ in case, for today and for a week label.      *)
(***************************************************************************)
QueryAnswerStores ==
    { NoAnswers,
      Submission(NoAnswers, <<"s", "2">>, <<>>, 1, <<>>),
      Submission(Submission(NoAnswers, <<"S", "1">>, TODAY, 2, <<>>),
                 <<"s", "1">>, TODAY, 1, <<>>),
      Submission(Submission(NoAnswers, <<"S", "1">>, TODAY, 1, <<>>),
                 <<"S", "1">>, <<"w1">>, 1, <<>>),
      Submission(Submission(NoAnswers, <<"S", "2">>, <<"w1">>, 1, <<>>),
                 <<"S", "1">>, TODAY, 2, <<>>) }

QueryDateArgs == { None, Some(<<>>), Some(TODAY), Some(<<"w1">>) }
QuerySearchArgs == { <<>>, <<"S">>, <<"s", "1">>, <<"1">>, <<"_", "2">>, <<"2", "%">> }

InitQuery ==
    /\ now = 0
    /\ \E st \in QueryAnswerStores : db_answers = st.rows /\ seq_answers = st.seq
    /\ db_questions = {}
    /\ db_logins = {}
    /\ db_class_scores = {}
    /\ db_participation = {}
    /\ db_score_weights = {}
    /\ InitSession

NextQuery ==
    \E date_arg \in QueryDateArgs, student_search \in QuerySearchArgs :
        CallLoadAnswers(date_arg, student_search)

SpecQuery == InitQuery /\ [][NextQuery]_vars

\* student_search is in student_id, sign for sign
Contains(text, part) ==
    \E k \in 0..(Len(text) - Len(part)) :
        \A j \in 1..Len(part) : text[k + j] = part[j]

\* the rows load_answers returned / the filters it was called with
ResultRows == { query_result[1][k] : k \in DOMAIN query_result[1] }
QueryDate == query_arg[1].date_week
QuerySearch == query_arg[1].student_search

\* C20 (as claimed): load_answers returns exactly the stored rows whose date
\* is the date filter, when one is given, and whose student id contains the
\* search text as a case-sensitive substring, when one is given.
C20_ExactCaseSensitive ==
    query_result # None =>
        ResultRows =
            {r \in db_answers :
                /\ (QueryDate # None /\ QueryDate[1] # <<>>) => r.date_week = QueryDate[1]
                /\ QuerySearch # <<>> => Contains(r.student_id, QuerySearch)}

\* what does hold of every call: the rows returned are stored rows of the
\* date asked for, each once, every stored row of that date whose id
\* contains the search text is among them, and they are in the order of
\* (student_id, question_no)
C20_FilterAndOrder ==
    query_result # None =>
        /\ ResultRows \subseteq db_answers
        /\ \A r \in ResultRows :
              (QueryDate # None /\ QueryDate[1] # <<>>) => r.date_week = QueryDate[1]
        /\ \A r \in db_answers :
              (/\ (QueryDate # None /\ QueryDate[1] # <<>>) => r.date_week = QueryDate[1]
               /\ Contains(r.student_id, QuerySearch)) => r \in ResultRows
        /\ \A i, j \in DOMAIN query_result[1] :
              i < j => /\ query_result[1][i] # query_result[1][j]
                       /\ InOrder(query_result[1][i], query_result[1][j])

\* a call of load_answers changes no stored data
C20_PureRead ==
    [][(\E date_arg \in QueryDateArgs, student_search \in QuerySearchArgs :
            CallLoadAnswers(date_arg, student_search)) => UNCHANGED storeVars]_vars

\* a transition of the draft other than Submit
DraftTransition ==
    \/ ClickStart
    \/ \E v \in DraftQuestionInputs : EditQuestion(v)
    \/ \E v \in AnswerInputs : EditAnswer(v)
    \/ ClickBack
    \/ ClickNext
    \/ ClickAdd
    \/ ClickPreview

FieldStudentIds == { <<" ">>, <<"S001">> }
FieldDates == { <<" ">> }
FieldAnswerInputs == { <<"a">> }
FieldQuestionSets == { << <<"q1">> >> }

NextFields ==
    \/ \E v \in FieldStudentIds : TypeStudentId(v)
    \/ \E v \in FieldDates : TypeDateWeek(v)
    \/ ClickLogin
    \/ ClickStart
    \/ \E v \in FieldAnswerInputs : EditAnswer(v)
    \/ ClickNext
    \/ ClickPreview
    \/ ClickSubmit
    \/ \E qs \in FieldQuestionSets : ClickSaveQuestionSet(TEACHER_CODE, TODAY, qs)

SpecFields == Init /\ [][NextFields]_vars

\* C21 (as claimed): every stored answer has a student id that is not blank
\* after trimming.
C21_StudentIdNonBlank ==
    \A r \in db_answers : Strip(r.student_id) # <<>>

\* C22 (as claimed): the rows a Submit writes carry the date label that
\* START and LOGIN use for the same content of the Date / Week field: the
\* trimmed field, or today's date when the field is blank.
C22_SubmitDateIsSelectedDate ==
    [][SubmitStep_ =>
          \A r \in db_answers' \ db_answers :
              r.date_week = SelectedDate(date_week)]_vars

\* what holds instead: the rows carry the trimmed field, blank or not, and
\* so the selected date whenever the field is not blank
C22_SubmitDateIsTrimmedField ==
    [][SubmitStep_ =>
          \A r \in db_answers' \ db_answers :
              /\ r.date_week = Strip(date_week)
              /\ Strip(date_week) # <<>> => r.date_week = SelectedDate(date_week)]_vars

(***************************************************************************)
(* SpecNavigation: a student walks through drafts of one to three slots,   *)
(* with Back, Next, Add Question, Preview and SUBMIT.                      *)
(***************************************************************************)
MaxNavSlots == 3
NavigationStudentIds == { <<"S001">> }
NavigationAnswerInputs == { <<" ">>, <<"a">> }

NextNavigation ==
    \/ \E v \in NavigationStudentIds : TypeStudentId(v)
    \/ ClickStart
    \/ \E v \in NavigationAnswerInputs : EditAnswer(v)
    \/ ClickBack
    \/ ClickNext
    \/ ClickAddUpTo(MaxNavSlots)
    \/ ClickPreview
    \/ ClickSubmit
    \/ \E qs \in DraftQuestionSets : ClickSaveQuestionSet(TEACHER_CODE, TODAY, qs)

SpecNavigation == Init /\ [][NextNavigation]_vars

\* C23: SUBMIT writes only while the preview is open; the preview is opened
\* by Preview alone; Back, Next, Add Question and an accepted START leave it
\* closed.  Hence every Submit follows a Preview with none of Back, Next,
\* Add Question, START between the two.
C23_SubmitOnlyFromPreview ==
    [][/\ SubmitStep_ => show_preview /\ ClickSubmit
       /\ (show_preview' /\ ~show_preview) => ClickPreview
       /\ (\/ ClickBack
           \/ ClickNext
           \/ ClickAddUpTo(MaxNavSlots)
           \/ ClickStart /\ Strip(student_id) # <<>>) => ~show_preview']_vars

\* C23 witness: a draft grown by Add Question was previewed and submitted
C23_Witness ==
    /\ ~started /\ ~show_preview
    /\ Cardinality(RowsOf(db_answers, Strip(student_id), Strip(date_week))) = 2
    /\ page.submit_shown

\* C26: Back and Next change the cursor and the preview only: the questions
\* and the answers, their number and their content, are as before.  Add
\* Question, wherever the cursor is and whatever answers are blank, keeps
\* every slot as it is, appends one blank question and one blank answer and
\* puts the cursor on the new last slot.  (A press on the screen a Submit
\* left behind, when no draft is started, does nothing.)
C26_NavigationFrame ==
    [][/\ (ClickBack \/ ClickNext) =>
            UNCHANGED << current_questions, answers, started, group_name >>
       /\ (started /\ ClickAddUpTo(MaxNavSlots)) =>
            /\ current_questions' = Append(current_questions, <<>>)
            /\ answers' = Append(answers, <<>>)
            /\ q_index' = Len(current_questions)
            /\ ~show_preview']_vars

\* C26 witness: Add Question was pressed on the first of two slots, whose
\* answer was left blank; the draft has three slots, the cursor is on the last
C26_Witness ==
    /\ started
    /\ Len(current_questions) = 3 /\ current_questions[3] = <<>>
    /\ current_questions[2] = <<>>
    /\ Strip(answers[1]) = <<>> /\ Strip(answers[2]) # <<>>
    /\ q_index = 2 /\ page.q_idx = 2

(***************************************************************************)
(* Participation counters and the other collections.                       *)
(***************************************************************************)
\* a participation counter of a student who has no login and no answer
C24_OrphanCounter ==
    \E p \in db_participation :
        /\ ~\E l \in db_logins : l.student_id = p.student_id
        /\ ~\E a \in db_answers : a.student_id = p.student_id

\* SpecParticipation with its users at work: as long as a press or an entry
\* can change the state, one is made
SpecParticipationLive == SpecParticipation /\ WF_vars(NextParticipation)

ShownCount(sid) ==
    PartGet(RenderParticipation(PartSession, Strip(participation_date_input))
                .part_values[Strip(participation_date_input)], sid)

(***************************************************************************)
(* SpecAdjust: two students log in for today; the teacher adjusts their    *)
(* counts up and down and saves them, repeatedly.                          *)
(***************************************************************************)
NextAdjust ==
    \/ \E v \in PartStudentIds : TypeStudentId(v)
    \/ ClickLogin
    \/ \E sid \in PartIds : ClickPartMinus(TEACHER_CODE, sid)
    \/ \E sid \in PartIds : ClickPartPlus(TEACHER_CODE, sid)
    \/ ClickSaveParticipation(TEACHER_CODE)

SpecAdjust == Init /\ [][NextAdjust]_vars

C25_NonNegative ==
    /\ \A dw \in DOMAIN part_values : \A sid \in DOMAIN part_values[dw] :
          part_values[dw][sid] >= 0
    /\ \A r \in db_participation : r.participation >= 0

C25_AdjustSession ==
    /\ \A sid \in PartIds :
          ClickPartMinus(TEACHER_CODE, sid) =>
              /\ part_values'[Strip(participation_date_input)][sid]
                    = IF ShownCount(sid) = 0 THEN 0 ELSE ShownCount(sid) - 1
              /\ UNCHANGED << storeVars, studentVars >>
    /\ \A sid \in PartIds :
          ClickPartPlus(TEACHER_CODE, sid) =>
              /\ part_values'[Strip(participation_date_input)][sid] = ShownCount(sid) + 1
              /\ UNCHANGED << storeVars, studentVars >>
    /\ db_participation' # db_participation => ClickSaveParticipation(TEACHER_CODE)

\* C25: every count of the session's participation maps and every stored
\* participation count is at least 0; "-" on a count of 0 leaves 0 and on a
\* larger count takes one off, "+" adds one, and both change the session's
\* map only; the stored counts change only by Save Participation.
C25_CountsNonNegative == []C25_NonNegative /\ [][C25_AdjustSession]_vars

\* C25 witness: after a save of MaxCount the count was taken down to 0 by
\* "-", so the session holds 0 while the store still holds MaxCount, and a
\* count of 0 has been saved as well
C25_Witness ==
    /\ Strip(participation_date_input) \in DOMAIN part_values
    /\ \E r \in db_participation :
          /\ r.date_week = Strip(participation_date_input)
          /\ r.participation = MaxCount
          /\ r.student_id \in DOMAIN part_values[r.date_week]
          /\ part_values[r.date_week][r.student_id] = 0
    /\ \E r \in db_participation : r.participation = 0

(***************************************************************************)
(* "Activity Score (per date)" of the teacher page.                        *)
(***************************************************************************)
\* all_ids = sorted(ans_ids | login_ids | score_ids); a blank date reads
\* each table without its date condition
ScoreAllIds(score_date) ==
    {r.student_id : r \in AnswersWhere(db_answers, Some(score_date), <<>>)}
        \cup {l.student_id : l \in {x \in db_logins :
                                      score_date # <<>> => x.date_week = score_date}}
        \cup {c.student_id : c \in {x \in db_class_scores :
                                      score_date # <<>> => x.date_week = score_date}}

\* rows_to_save = [(sid, float(val), "") for sid, val in score_rows_input]
ScoreRowsToSave(vals) == {ScoreRow(sid, vals[sid]) : sid \in DOMAIN vals}

\* whether saving score_rows for dw replaces a stored row of another score
ReplacesScore(tbl, dw, score_rows) ==
    \E r \in tbl, n \in score_rows :
        /\ r.student_id = n.student_id /\ r.date_week = dw /\ r.score # n.score

\* "Save Activity Scores", pressed with the score fields holding vals
ClickSaveActivityScores(access_code, manage_date, vals) ==
    /\ Strip(access_code) = TEACHER_CODE
    /\ ScoreAllIds(Strip(manage_date)) # {}
    /\ DOMAIN vals = ScoreAllIds(Strip(manage_date))
    /\ db_class_scores' = save_class_scores(db_class_scores, Strip(manage_date),
                                            ScoreRowsToSave(vals))
    /\ store_effect' = IF ReplacesScore(db_class_scores, Strip(manage_date),
                                        ScoreRowsToSave(vals))
                       THEN "scores_replaced" ELSE "scores_saved"
    /\ UNCHANGED << db_answers, seq_answers, db_questions, db_logins,
                    db_participation, db_score_weights, now, studentVars,
                    teacherVars >>

\* save_score_weights called with the values of the three weight fields
CallSaveScoreWeights(w_answers, w_class, w_part) ==
    /\ db_score_weights' = save_score_weights(db_score_weights, w_answers, w_class, w_part)
    /\ UNCHANGED << db_answers, seq_answers, db_questions, db_logins,
                    db_class_scores, db_participation, now, studentVars,
                    teacherVars, store_effect >>

(***************************************************************************)
(* SpecRecords: a student logs in for today and for a week label; the      *)
(* teacher saves participation counts, activity scores for both dates,     *)
(* question sets and weights, each more than once.                         *)
(***************************************************************************)
RecordStudentIds == { <<"S001", " ">> }
RecordStudentDates == { <<"w1">> }
RecordManageDates == { TODAY, <<" ", "w1">> }
RecordScoreInputs == { 0, 150 }
RecordQuestionLists == { << <<"q1">> >>, << <<"q2">>, <<"q1">> >> }
RecordWeights == { <<10, 20, 5>>, <<20, 10, 10>> }

\* the values the score fields of the page of manage_date may hold
ScoreFieldValues(manage_date) ==
    [ScoreAllIds(Strip(manage_date)) -> RecordScoreInputs]

NextRecords ==
    \/ \E v \in RecordStudentIds : TypeStudentId(v)
    \/ \E v \in RecordStudentDates : TypeDateWeek(v)
    \/ ClickLogin
    \/ \E sid \in PartIds : ClickPartPlus(TEACHER_CODE, sid)
    \/ ClickSaveParticipation(TEACHER_CODE)
    \/ \E d \in RecordManageDates : \E vals \in ScoreFieldValues(d) :
          ClickSaveActivityScores(TEACHER_CODE, d, vals)
    \/ \E qs \in RecordQuestionLists : ClickSaveQuestionSet(TEACHER_CODE, TODAY, qs)
    \/ \E w \in RecordWeights : CallSaveScoreWeights(w[1], w[2], w[3])

SpecRecords == Init /\ [][NextRecords]_vars

\* no two rows of tbl agree on both columns k1 and k2
UniqueOn(tbl, k1, k2) ==
    \A r, q \in tbl : (r[k1] = q[k1] /\ r[k2] = q[k2]) => r = q

C27_Unique ==
    /\ UniqueOn(db_logins, "student_id", "date_week")
    /\ UniqueOn(db_participation, "student_id", "date_week")
    /\ UniqueOn(db_class_scores, "student_id", "date_week")
    /\ UniqueOn(db_questions, "date_week", "question_no")
    /\ Cardinality(db_score_weights) <= 1
    /\ db_score_weights = {} =>
          load_score_weights(db_score_weights)
              = [w_answers |-> DEFAULT_WEIGHT, w_class |-> DEFAULT_WEIGHT,
                 w_part |-> DEFAULT_WEIGHT]

C27_LastSave ==
    /\ \A d \in RecordManageDates : \A vals \in ScoreFieldValues(d) :
          ClickSaveActivityScores(TEACHER_CODE, d, vals) =>
              /\ \A sid \in DOMAIN vals :
                    {r.score : r \in RowsOf(db_class_scores', sid, Strip(d))} = {vals[sid]}
              /\ \A r \in db_class_scores :
                    (r.date_week # Strip(d) \/ r.student_id \notin DOMAIN vals)
                        => r \in db_class_scores'
    /\ db_class_scores' # db_class_scores =>
          \E d \in RecordManageDates : \E vals \in ScoreFieldValues(d) :
              ClickSaveActivityScores(TEACHER_CODE, d, vals)
    /\ \A w \in RecordWeights :
          CallSaveScoreWeights(w[1], w[2], w[3]) =>
              load_score_weights(db_score_weights')
                  = [w_answers |-> w[1], w_class |-> w[2], w_part |-> w[3]]
    /\ db_score_weights' # db_score_weights =>
          \E w \in RecordWeights : CallSaveScoreWeights(w[1], w[2], w[3])

\* C27: the login, participation and activity score tables hold at most one
\* row per (student_id, date_week), the questions table at most one row per
\* (date_week, question_no) and the weights table at most one row; a save of
\* activity scores leaves each pair of its batch with the saved score and
\* every other row as it was, and nothing else changes the table; after a
\* save of weights the stored weights are the saved ones, nothing else
\* changes them, and 1.0 is read for each weight while none is stored.
C27_OneRowPerKey == []C27_Unique /\ [][C27_LastSave]_vars

\* C27 witness: a save has just replaced the activity score of one date
\* while the score of the other date stays, the student has a login for
\* both dates and a participation count, and a second question set and a
\* second set of weights have been saved
C27_Witness ==
    /\ store_effect = "scores_replaced"
    /\ Cardinality(db_logins) = 2
    /\ \E p \in db_participation : p.participation = MaxCount
    /\ {r.score : r \in db_class_scores} = RecordScoreInputs
    /\ Cardinality(db_questions) = 2
    /\ \E w \in db_score_weights : w.w_class = 10 /\ w.w_answers = 20

(***************************************************************************)
(* update_checked, which no page calls: the review flag of answer rows.    *)
(***************************************************************************)
\* if not ids: return;  UPDATE answers SET checked = ? WHERE id IN (ids)
update_checked(tbl, ids, checked) ==
    IF ids = {} THEN tbl
    ELSE { [r EXCEPT !.checked = IF r.id \in ids
                                 THEN (IF checked THEN 1 ELSE 0)
                                 ELSE r.checked] : r \in tbl }

CallUpdateChecked(ids, checked) ==
    /\ db_answers' = update_checked(db_answers, ids, checked)
    /\ store_effect' = IF \E r \in db_answers' \ db_answers : r.checked = 1
                       THEN "checked_set"
                       ELSE IF db_answers' # db_answers THEN "checked_cleared"
                       ELSE "checked_unchanged"
    /\ UNCHANGED << seq_answers, otherStoreVars, studentVars, teacherVars >>

(***************************************************************************)
(* SpecReview: two students submit one or two answers each and submit      *)
(* again, and rows are marked as checked and unmarked in between.          *)
(***************************************************************************)
ReviewStudentIds == { <<"S001">>, <<"S002">> }
ReviewAnswerInputs == { <<"a">> }
ReviewQuestionSets == { << <<"q1">> >> }
ReviewIdSets == { {}, {1}, {1, 2}, {3} }

NextReview ==
    \/ \E v \in ReviewStudentIds : TypeStudentId(v)
    \/ ClickStart
    \/ \E v \in ReviewAnswerInputs : EditAnswer(v)
    \/ ClickNext
    \/ ClickAdd
    \/ ClickPreview
    \/ ClickSubmit
    \/ \E qs \in ReviewQuestionSets : ClickSaveQuestionSet(TEACHER_CODE, TODAY, qs)
    \/ \E ids \in ReviewIdSets, checked \in BOOLEAN : CallUpdateChecked(ids, checked)

SpecReview == Init /\ [][NextReview]_vars

\* C28: every row that a Submit writes has checked = 0, and after the
\* Submit every stored row of the submitted student and date has
\* checked = 0, whatever flags the rows of the pair had before.
C28_SubmitClearsChecked ==
    [][SubmitStep_ =>
        /\ \A r \in db_answers' \ db_answers : r.checked = 0
        /\ \A r \in RowsOf(db_answers', Strip(student_id), Strip(date_week)) :
              r.checked = 0
        /\ RowsOf(db_answers', Strip(student_id), Strip(date_week)) # {}]_vars

\* C28 witness: the last call of update_checked set the flag of a row, and
\* no stored row is checked now: the student of that row has submitted
\* again; an answer of the other student is stored as well
C28_Witness ==
    /\ store_effect = "checked_set"
    /\ \A r \in db_answers : r.checked = 0
    /\ {r.student_id : r \in db_answers} = ReviewStudentIds

(***************************************************************************)
(* Round trip of a question set.                                           *)
(***************************************************************************)
\* the trimmed texts of qs that are not blank, in the order of qs
TrimmedNonBlank(qs) ==
    SelectSeq([i \in 1..Len(qs) |-> Strip(qs[i])], LAMBDA q : q # <<>>)

(***************************************************************************)
(* SpecRoundTrip: question lists with blank texts in every position are    *)
(* saved for two dates, and load_questions is called for them.             *)
(***************************************************************************)
RoundTripDates == { TODAY, <<"w1", " ">> }
RoundTripLists ==
    { << <<"q1">> >>,
      << <<" ">>, <<" ", "q2">> >>,
      << <<"q2", " ">>, <<>>, <<"q1">> >>,
      << <<" ">>, <<>> >> }
RoundTripArgs == { None, Some(TODAY), Some(<<"w1">>) }

NextRoundTrip ==
    \/ \E d \in RoundTripDates, qs \in RoundTripLists :
          ClickSaveQuestionSet(TEACHER_CODE, d, qs)
    \/ \E a \in RoundTripArgs : CallLoadQuestions(a)

SpecRoundTrip == Init /\ [][NextRoundTrip]_vars

\* C29: right after a question set qs is saved for a date that is not
\* blank, load_questions of that date returns the trimmed non-blank texts of
\* qs in their order, and DEFAULT_QUESTIONS when qs has no such text, in
\* which case no question of the date is stored.
C29_SaveThenLoad ==
    [][\A d \in RoundTripDates, qs \in RoundTripLists :
          ClickSaveQuestionSet(TEACHER_CODE, d, qs) =>
              /\ Strip(d) # <<>>
              /\ load_questions(Some(Strip(d)))'
                    = IF TrimmedNonBlank(qs) = <<>> THEN DEFAULT_QUESTIONS
                      ELSE TrimmedNonBlank(qs)
              /\ TrimmedNonBlank(qs) = <<>> =>
                    {r \in db_questions' : r.date_week = Strip(d)} = {}]_vars

\* C29 witness: a list of three texts with a blank one in the middle is
\* stored for a date as the question numbers 1 and 3, and load_questions of
\* the date has returned the two trimmed texts in the order of the list
C29_Witness ==
    /\ resolve_arg \notin {None, Some(<<>>)}
    /\ {[question_no |-> r.question_no, question |-> r.question] :
            r \in {x \in db_questions : x.date_week = resolve_arg[1]}}
          = {[question_no |-> 1, question |-> <<"q2">>],
             [question_no |-> 3, question |-> <<"q1">>]}
    /\ resolve_result = Some(<< <<"q2">>, <<"q1">> >>)

(***************************************************************************)
(* load_student_groups: the group of each student for a date.              *)
(***************************************************************************)
\* SELECT student_id, MAX(COALESCE(group_name, '')) ... WHERE date_week=?
\* GROUP BY student_id, as a dict; {} "if not date_week"
load_student_groups(dw) ==
    IF dw = <<>> THEN << >>
    ELSE [sid \in {r.student_id : r \in {x \in db_answers : x.date_week = dw}} |->
            MaxText({r.group_name : r \in RowsOf(db_answers, sid, dw)})]

C30_OneGroupPerPair ==
    \A r, q \in db_answers :
        /\ Strip(r.group_name) = r.group_name
        /\ (r.student_id = q.student_id /\ r.date_week = q.date_week)
              => r.group_name = q.group_name

C30_LabelOfSubmission ==
    SubmitStep_ =>
        /\ Strip(date_week) # <<>> =>
              /\ Strip(student_id) \in DOMAIN load_student_groups(Strip(date_week))'
              /\ load_student_groups(Strip(date_week))'[Strip(student_id)]
                    = Strip(group_name_input)
        /\ \A r \in db_answers :
              (r.student_id # Strip(student_id) \/ r.date_week # Strip(date_week))
                  => r \in db_answers'

\* C30: all stored answer rows of one (student_id, date_week) carry the same
\* group name, which is trimmed; after a Submit, load_student_groups of the
\* submitted date gives the submitting student the trimmed text of the
\* group field, and the rows of every other pair are as before, so the
\* label of a student for a date is the group of the latest submission.
C30_GroupOfLatestSubmission == []C30_OneGroupPerPair /\ [][C30_LabelOfSubmission]_vars

\* C30 witness: a student has submitted a second time, now without a
\* group (the row of the first submission is gone), while the two rows of
\* another student carry the group A
C30_Witness ==
    /\ ~started
    /\ Strip(student_id) \in DOMAIN load_student_groups(TODAY)
    /\ load_student_groups(TODAY)[Strip(student_id)] = <<>>
    /\ {r.id : r \in RowsOf(db_answers, Strip(student_id), TODAY)} = {4}
    /\ \E sid \in DOMAIN load_student_groups(TODAY) :
          /\ load_student_groups(TODAY)[sid] = <<"A">>
          /\ {r.id : r \in RowsOf(db_answers, sid, TODAY)} = {1, 2}

====
